---- MODULE Spec2Model ----
(***************************************************************************)
(* Authentication / session core of the ISIDRO web API.                    *)
(*                                                                         *)
(* Time is the reading of the UTC clock in whole seconds: the JWT claims   *)
(* iat and exp are NumericDate values (whole seconds) and the expiry test  *)
(* compares exp with the clock, so only the whole-second reading of the    *)
(* clock is observable.  Two successive datetime.utcnow() calls inside one *)
(* handler may read consecutive seconds.                                   *)
(***************************************************************************)
EXTENDS Integers, FiniteSets, Sequences, TLC

\* ---------------------------------------------------------------- bounds
MaxUsers  == 2      \* rows ever inserted into the users table
MaxTicks  == 2      \* clock advances between requests
MaxIssued == 2      \* tokens the clients keep
MaxRows   == 1      \* rows ever inserted into trainings, and into devotions
MaxHashes == 2      \* direct calls of hash_password, and of verify_password
MaxInfos  == 2      \* highest id given in personal_information, and in
                    \* disciple_information
MaxPending == 2     \* requests that hold an open transaction at a time

\* ------------------------------------------------------- program constants
ACCESS_TOKEN_EXPIRATION_MINUTES == 24 * 60
REFRESH_TOKEN_EXPIRATION_DAYS == 15
\* a cookie max-age counted in minutes
COOKIE_MAX_AGE_minutes == 15 * 24 * 60

\* max_age of the refresh_token cookie set by login
COOKIE_MAX_AGE == 15 * 24 * 60 * 60

minutes(m) == m * 60
days(d)    == d * 24 * 60 * 60

\* ------------------------------------------------------------ input sets
None      == 0                       \* Python None where an int is expected
NoSecret  == "<unset>"               \* os.getenv("SECRET_KEY") returned None
Secrets   == {"k1"}                  \* configured signing secrets
ForeignKeys == {"evil"}              \* keys held by other parties
BadSig    == "<bad>"                 \* a signature segment no key produces
Emails    == {"a@x", "b@x"}
Passwords == {"secret123", "hunter22"}
\* two passwords longer than 72 bytes with the same first 72 bytes
LongPasswords == {"<72 bytes>a", "<72 bytes>b"}
SaltPool  == {"s1", "s2", "s3"}      \* values of bcrypt.gensalt()
Names     == {"ann"}
Salts     == {"s1"}
Deltas    == {86399, 1296000}         \* idle time between requests: one
                                     \* second short of 24 h, and 15 days
PathIds   == {1, 2}                  \* user_id path parameters
Absent    == "<absent>"              \* an Optional[str] field left out (None)
NewNames  == {"bob"}                 \* names a profile is changed to
Titles    == {"t1"}                  \* titles of trainings and devotions
FirstNames == {"joe"}                \* PersonalInformationCreate.first_name
NewFirstNames == {"joseph"}          \* PersonalInformationUpdate.first_name
GroupNames == {"g1"}                 \* DiscipleInformationCreate.group_name
NewGroupNames == {"g2"}              \* DiscipleInformationUpdate.group_name
CategoryNames == {"basics", "leaders"}
CategoryTypes == {"seminar"}
\* the users the code treats as administrators: models.User has no role
\* or admin column, and no handler tells one user from another
Admins    == {}

VARIABLES
    env,            \* process environment: [SECRET_KEY, DATABASE]
    proc,           \* "init" | "serving" | "failed"
    SECRET_KEY,     \* security.SECRET_KEY, read once at import
    schema,         \* users table: "legacy" (no password column) | "current"
    users,          \* rows of the users table
    nextId,         \* users.id sequence
    now,            \* UTC clock, whole seconds
    ticks,          \* number of clock advances so far
    issued,         \* tokens handed to clients: [tok, at, uid], minted at
                    \* clock reading at for user uid
    trainings,      \* rows of the trainings table: [id, user_id, title]
    devotions,      \* rows of the devotions table: [id, user_id, title]
    serial,         \* the id sequences, one for each table but users
    bcrypt,         \* the bcrypt library: [rejects_long, hashed, checked],
                    \* its version and the calls made to it directly
    personal_information,   \* rows of the table: [id, user_id, first_name]
    disciple_information,   \* rows of the table: [id, user_id, group_name]
    training_category,      \* rows of the table: [id, name, type]
    pending,        \* requests in flight that hold an open transaction
    req,            \* the last request
    resp            \* response to the last request

vars == <<env, proc, SECRET_KEY, schema, users, nextId, now, ticks,
          issued, trainings, devotions, serial, bcrypt, personal_information,
          disciple_information, training_category, pending, req, resp>>

\* ------------------------------------------------------ password hashing
NullPassword == [fmt |-> "null", salt |-> "", pw |-> ""]
Placeholder  == [fmt |-> "text", salt |-> "", pw |-> "placeholder"]

\* the bytes of a password that bcrypt works on
first72(password) ==
    IF password \in LongPasswords THEN "<72 bytes>" ELSE password

\* bcrypt from 5.0 on raises ValueError for a password longer than 72
\* bytes, in hashpw and in checkpw; before, it drops the bytes after the
\* 72nd
too_long(password) == bcrypt.rejects_long /\ password \in LongPasswords

\* bcrypt.hashpw(password, salt), where it does not raise
hashpw(password, salt) ==
    [fmt |-> "bcrypt", salt |-> salt, pw |-> first72(password)]

\* hash_password: salt = bcrypt.gensalt(rounds=12) is the random input
hash_password(password, salt) == hashpw(password, salt)

\* bcrypt.checkpw: re-hashes with the salt embedded in the stored value;
\* a stored value that is not a bcrypt hash has no salt: ValueError
checkpw(password, hashed) ==
    IF hashed.fmt # "bcrypt" \/ too_long(password) THEN "ValueError"
    ELSE IF hashpw(password, hashed.salt) = hashed THEN "True" ELSE "False"

verify_password(password, hashed_password) == checkpw(password, hashed_password)

\* ----------------------------------------------------------------- tokens
NoToken == [kind |-> "none", sig |-> "", user_id |-> None, type |-> "",
            iat |-> 0, exp |-> 0]
Garbage == [kind |-> "garbage", sig |-> "", user_id |-> None, type |-> "",
            iat |-> 0, exp |-> 0]

\* jwt.encode(payload, key, algorithm): HMAC key must be str/bytes
jwt_encode(payload, key) ==
    IF key = NoSecret
    THEN [raised |-> "TypeError", token |-> NoToken]
    ELSE [raised |-> "",
          token  |-> [kind |-> "jwt", sig |-> key,
                      user_id |-> payload.user_id, type |-> payload.type,
                      iat |-> payload.iat, exp |-> payload.exp]]

\* jwt.decode with options={"verify_signature": False}
jwt_decode_unverified(token, key, t) ==
    IF token.kind # "jwt" THEN "DecodeError"
    ELSE IF key = NoSecret THEN "TypeError"
    ELSE IF token.exp <= t THEN "ExpiredSignatureError"
    ELSE "ok"

\* jwt.decode(token, key, algorithms=[ALGORITHM]) at clock reading t: the
\* structure, then the signature under key, then exp (a token is expired
\* once exp <= t)
jwt_decode(token, key, t) ==
    IF token.kind # "jwt" THEN "DecodeError"
    ELSE IF key = NoSecret THEN "TypeError"
    ELSE IF token.sig # key THEN "InvalidSignatureError"
    ELSE IF token.exp <= t THEN "ExpiredSignatureError"
    ELSE "ok"

InvalidTokenError ==
    {"DecodeError", "InvalidSignatureError", "ExpiredSignatureError"}

\* create_access_token with the refresh lifetime
create_access_token_long(user_id, t_exp, t_iat) ==
    jwt_encode([user_id |-> user_id,
                exp  |-> t_exp + days(REFRESH_TOKEN_EXPIRATION_DAYS),
                iat  |-> t_iat,
                type |-> "access"], SECRET_KEY)

\* create_access_token that numbers users from zero
create_access_token_shifted(user_id, t_exp, t_iat) ==
    jwt_encode([user_id |-> user_id - 1,
                exp  |-> t_exp + minutes(ACCESS_TOKEN_EXPIRATION_MINUTES),
                iat  |-> t_iat,
                type |-> "access"], SECRET_KEY)

\* create_access_token with the clock read once, when the module is loaded
create_access_token_frozen(user_id, t_exp, t_iat) ==
    jwt_encode([user_id |-> user_id,
                exp  |-> 0 + minutes(ACCESS_TOKEN_EXPIRATION_MINUTES),
                iat  |-> 0,
                type |-> "access"], SECRET_KEY)

\* create_access_token(user_id): t_exp, t_iat are its two utcnow() readings
create_access_token(user_id, t_exp, t_iat) ==
    jwt_encode([user_id |-> user_id,
                exp  |-> t_exp + minutes(ACCESS_TOKEN_EXPIRATION_MINUTES),
                iat  |-> t_iat,
                type |-> "access"], SECRET_KEY)

\* create_refresh_token with the access lifetime
create_refresh_token_short(user_id, t_exp, t_iat) ==
    jwt_encode([user_id |-> user_id,
                exp  |-> t_exp + minutes(ACCESS_TOKEN_EXPIRATION_MINUTES),
                iat  |-> t_iat,
                type |-> "refresh"], SECRET_KEY)

\* create_refresh_token with a lifetime of thirty days
create_refresh_token_monthly(user_id, t_exp, t_iat) ==
    jwt_encode([user_id |-> user_id,
                exp  |-> t_exp + days(2 * REFRESH_TOKEN_EXPIRATION_DAYS),
                iat  |-> t_iat,
                type |-> "refresh"], SECRET_KEY)

create_refresh_token(user_id, t_exp, t_iat) ==
    jwt_encode([user_id |-> user_id,
                exp  |-> t_exp + days(REFRESH_TOKEN_EXPIRATION_DAYS),
                iat  |-> t_iat,
                type |-> "refresh"], SECRET_KEY)

Returned(v) == [raised |-> "", value |-> v]
Raised(e)   == [raised |-> e, value |-> None]

\* verify_access_token without the check of the type claim
verify_access_token_untyped(token) ==
    LET d == jwt_decode(token, SECRET_KEY, now) IN
    IF d = "ok"
    THEN IF token.user_id = None THEN Returned(None)
         ELSE Returned(token.user_id)
    ELSE IF d \in InvalidTokenError THEN Returned(None)
    ELSE Raised(d)

verify_access_token(token) ==
    LET d == jwt_decode(token, SECRET_KEY, now) IN
    IF d = "ok"
    THEN IF token.type # "access" THEN Returned(None)
         ELSE IF token.user_id = None THEN Returned(None)
         ELSE Returned(token.user_id)
    ELSE IF d \in InvalidTokenError THEN Returned(None)
    ELSE Raised(d)

\* verify_refresh_token without the check of the type claim
verify_refresh_token_untyped(token) ==
    LET d == jwt_decode(token, SECRET_KEY, now) IN
    IF d = "ok"
    THEN IF token.user_id = None THEN Returned(None)
         ELSE Returned(token.user_id)
    ELSE IF d \in InvalidTokenError THEN Returned(None)
    ELSE Raised(d)

verify_refresh_token(token) ==
    LET d == jwt_decode(token, SECRET_KEY, now) IN
    IF d = "ok"
    THEN IF token.type # "refresh" THEN Returned(None)
         ELSE IF token.user_id = None THEN Returned(None)
         ELSE Returned(token.user_id)
    ELSE IF d \in InvalidTokenError THEN Returned(None)
    ELSE Raised(d)

\* -------------------------------------------------------------- responses
NoCookie == [act |-> "none", key |-> "", value |-> NoToken, max_age |-> 0,
             httponly |-> FALSE, secure |-> FALSE, samesite |-> ""]
NoBody   == [id |-> None, name |-> "", email |-> "", access_token |-> NoToken,
             token_type |-> "", message |-> "", user_id |-> None, items |-> {}]
NoResp   == [op |-> "", status |-> 0, detail |-> "", www_authenticate |-> "",
             cookie |-> NoCookie, body |-> NoBody]

\* raise HTTPException(status_code, detail, headers)
HTTPException(op, status_code, detail, www) ==
    [op |-> op, status |-> status_code, detail |-> detail,
     www_authenticate |-> www, cookie |-> NoCookie, body |-> NoBody]

\* an exception that is not an HTTPException leaves the handler: the
\* server answers 500
ServerError(op) == HTTPException(op, 500, "Internal Server Error", "")

\* what a handler hands back: the response and the tokens it minted, each
\* with the clock reading of its create_*_token call and the user it is for
Outcome(r, toks) == [resp |-> r, minted |-> toks]

\* ------------------------------------------------ session flow controller
\* POST /api/auth/login; t1..t4 are the utcnow() readings of the two
\* create_*_token calls
login(credentials, t1, t2, t3, t4) ==
    LET result == {u \in users : u.email = credentials.email} IN
    IF result = {}
    THEN Outcome(HTTPException("login", 401, "Invalid email or password", ""), {})
    ELSE
    LET user == CHOOSE u \in result : TRUE
        ok   == verify_password(credentials.password, user.password) IN
    IF ok = "ValueError" THEN Outcome(ServerError("login"), {})
    ELSE IF ok = "False"
    THEN Outcome(HTTPException("login", 401, "Invalid email or password", ""), {})
    ELSE
    LET access_token  == create_access_token(user.id, t1, t2)
        refresh_token == create_refresh_token(user.id, t3, t4) IN
    IF access_token.raised # "" \/ refresh_token.raised # ""
    THEN Outcome(ServerError("login"), {})
    ELSE Outcome(
        [op |-> "login", status |-> 200, detail |-> "", www_authenticate |-> "",
         cookie |-> [act |-> "set", key |-> "refresh_token",
                     value |-> refresh_token.token, max_age |-> COOKIE_MAX_AGE,
                     httponly |-> TRUE, secure |-> FALSE, samesite |-> "lax"],
         body |-> [NoBody EXCEPT !.id = user.id, !.name = user.name,
                                 !.email = user.email,
                                 !.access_token = access_token.token,
                                 !.token_type = "bearer",
                                 !.message = "Login successful"]],
        {[tok |-> access_token.token, at |-> t1, uid |-> user.id],
         [tok |-> refresh_token.token, at |-> t3, uid |-> user.id]})

\* a refresh that rotates: it also reissues the refresh token and sets it
\* as the cookie
refresh_access_token_rotating(request, t1, t2) ==
    LET user_id == verify_refresh_token(request.refresh_token)
        new_access_token == create_access_token(user_id.value, t1, t2)
        new_refresh_token == create_refresh_token(user_id.value, t1, t2) IN
    IF request.refresh_token = NoToken
    THEN Outcome(HTTPException("refresh", 422, "Field required", ""), {})
    ELSE IF user_id.raised # "" \/ new_access_token.raised # ""
    THEN Outcome(ServerError("refresh"), {})
    ELSE IF user_id.value = None
    THEN Outcome(HTTPException("refresh", 401,
                               "Invalid or expired refresh token", "Bearer"), {})
    ELSE Outcome(
        [op |-> "refresh", status |-> 200, detail |-> "", www_authenticate |-> "",
         cookie |-> [act |-> "set", key |-> "refresh_token",
                     value |-> new_refresh_token.token, max_age |-> COOKIE_MAX_AGE,
                     httponly |-> TRUE, secure |-> FALSE, samesite |-> "lax"],
         body |-> [NoBody EXCEPT !.access_token = new_access_token.token,
                                 !.token_type = "bearer",
                                 !.message = "Token refreshed successfully"]],
        {[tok |-> new_access_token.token, at |-> t1, uid |-> user_id.value],
         [tok |-> new_refresh_token.token, at |-> t1, uid |-> user_id.value]})

\* POST /api/auth/refresh.  request is what the client sent: the
\* refresh_token field of the JSON body (NoToken: no such field) and, where
\* the caller gives one, the refresh_token cookie.  The body is validated
\* against RefreshTokenRequest before the handler runs (422 when the
\* required field is missing); the handler reads request.refresh_token only.
refresh_access_token(request, t1, t2) ==
    IF request.refresh_token = NoToken
    THEN Outcome(HTTPException("refresh", 422, "Field required", ""), {})
    ELSE
    LET user_id == verify_refresh_token(request.refresh_token) IN
    IF user_id.raised # "" THEN Outcome(ServerError("refresh"), {})
    ELSE IF user_id.value = None
    THEN Outcome(HTTPException("refresh", 401,
                               "Invalid or expired refresh token", "Bearer"), {})
    ELSE
    LET new_access_token == create_access_token(user_id.value, t1, t2) IN
    IF new_access_token.raised # "" THEN Outcome(ServerError("refresh"), {})
    ELSE Outcome(
        [op |-> "refresh", status |-> 200, detail |-> "", www_authenticate |-> "",
         cookie |-> NoCookie,
         body |-> [NoBody EXCEPT !.access_token = new_access_token.token,
                                 !.token_type = "bearer",
                                 !.message = "Token refreshed successfully"]],
        {[tok |-> new_access_token.token, at |-> t1, uid |-> user_id.value]})

\* GET /api/auth/logout
logout ==
    Outcome(
        [op |-> "logout", status |-> 200, detail |-> "", www_authenticate |-> "",
         cookie |-> [act |-> "delete", key |-> "refresh_token",
                     value |-> NoToken, max_age |-> 0,
                     httponly |-> TRUE, secure |-> FALSE, samesite |-> "lax"],
         body |-> [NoBody EXCEPT !.message = "Logged out successfully"]],
        {})

\* GET /api/auth/verify-token?token=...
verify_token(token) ==
    LET user_id == verify_access_token(token) IN
    IF user_id.raised # "" THEN Outcome(ServerError("verify"), {})
    ELSE IF user_id.value = None
    THEN Outcome(HTTPException("verify", 401, "Invalid or expired token", "Bearer"), {})
    ELSE Outcome(
        [op |-> "verify", status |-> 200, detail |-> "", www_authenticate |-> "",
         cookie |-> NoCookie, body |-> [NoBody EXCEPT !.user_id = user_id.value]],
        {})

\* dependencies.get_current_user: the bearer token of the Authorization header
get_current_user(token) ==
    LET user_id == verify_access_token(token) IN
    IF user_id.raised # "" THEN [raised |-> "500", value |-> None]
    ELSE IF user_id.value = None THEN [raised |-> "401", value |-> None]
    ELSE Returned(user_id.value)

\* GET /users/{user_id}, a route guarded by get_current_user
get_user(user_id, token) ==
    LET current_user_id == get_current_user(token) IN
    IF current_user_id.raised = "500" THEN Outcome(ServerError("get_user"), {})
    ELSE IF current_user_id.raised = "401"
    THEN Outcome(HTTPException("get_user", 401, "Invalid or expired token", "Bearer"), {})
    ELSE IF user_id # current_user_id.value
    THEN Outcome(HTTPException("get_user", 403,
                               "You can only access your own profile", ""), {})
    ELSE
    LET result == {u \in users : u.id = user_id} IN
    IF result = {}
    THEN Outcome(HTTPException("get_user", 404, "User not found", ""), {})
    ELSE LET user == CHOOSE u \in result : TRUE IN
         Outcome(
            [op |-> "get_user", status |-> 200, detail |-> "",
             www_authenticate |-> "", cookie |-> NoCookie,
             body |-> [NoBody EXCEPT !.id = user.id, !.name = user.name,
                                     !.email = user.email]],
            {})

\* ------------------------------------------------------------- user store
\* alembic 002_add_password_column.upgrade applied to the users table
upgrade(rows) ==
    {IF u.password = NullPassword THEN [u EXCEPT !.password = Placeholder] ELSE u
        : u \in rows}

\* POST /users/ : salt is the random input of hash_password
create_user(user, salt) ==
    IF \E u \in users : u.email = user.email
    THEN [resp |-> HTTPException("create_user", 400, "Email already registered", ""),
          rows |-> users]
    ELSE IF too_long(user.password)
    THEN [resp |-> ServerError("create_user"), rows |-> users]
    ELSE
    LET hashed_password == hash_password(user.password, salt)
        db_user == [id |-> nextId, name |-> user.name, email |-> user.email,
                    password |-> hashed_password] IN
    [resp |-> [op |-> "create_user", status |-> 201, detail |-> "",
               www_authenticate |-> "", cookie |-> NoCookie,
               body |-> [NoBody EXCEPT !.id = db_user.id, !.name = db_user.name,
                                       !.email = db_user.email]],
     rows |-> users \cup {db_user}]

\* update_user whose session is committed when the handler refuses the
\* email: the name assigned before the check stays
update_user_committing(user_id, user_update, token, salt) ==
    LET current_user_id == get_current_user(token) IN
    IF current_user_id.raised = "500"
    THEN [resp |-> ServerError("update_user"), rows |-> users]
    ELSE IF current_user_id.raised = "401"
    THEN [resp |-> HTTPException("update_user", 401, "Invalid or expired token",
                                 "Bearer"), rows |-> users]
    ELSE IF user_id # current_user_id.value
    THEN [resp |-> HTTPException("update_user", 403,
                                 "You can only update your own profile", ""),
          rows |-> users]
    ELSE
    LET result == {u \in users : u.id = user_id} IN
    IF result = {}
    THEN [resp |-> HTTPException("update_user", 404, "User not found", ""),
          rows |-> users]
    ELSE
    LET user == CHOOSE u \in result : TRUE
        named == IF user_update.name # Absent
                 THEN [user EXCEPT !.name = user_update.name] ELSE user IN
    IF /\ user_update.email # Absent
       /\ \E u \in users : u.email = user_update.email /\ u.id # user_id
    THEN [resp |-> HTTPException("update_user", 400, "Email already in use", ""),
          rows |-> (users \ {user}) \cup {named}]
    ELSE IF user_update.password # Absent /\ too_long(user_update.password)
    THEN [resp |-> ServerError("update_user"), rows |-> users]
    ELSE
    LET mailed == IF user_update.email # Absent
                  THEN [named EXCEPT !.email = user_update.email] ELSE named
        hashed == IF user_update.password # Absent
                  THEN [mailed EXCEPT
                          !.password = hash_password(user_update.password, salt)]
                  ELSE mailed IN
    [resp |-> [op |-> "update_user", status |-> 200, detail |-> "",
               www_authenticate |-> "", cookie |-> NoCookie,
               body |-> [NoBody EXCEPT !.id = hashed.id, !.name = hashed.name,
                                       !.email = hashed.email]],
     rows |-> (users \ {user}) \cup {hashed}]

\* PUT /users/{user_id}: user_update = [name, email, password], Absent for
\* a field that is not sent.  An HTTPException leaves through get_db, which
\* rolls the session back: the rows stay as they were.
update_user(user_id, user_update, token, salt) ==
    LET current_user_id == get_current_user(token) IN
    IF current_user_id.raised = "500"
    THEN [resp |-> ServerError("update_user"), rows |-> users]
    ELSE IF current_user_id.raised = "401"
    THEN [resp |-> HTTPException("update_user", 401, "Invalid or expired token",
                                 "Bearer"), rows |-> users]
    ELSE IF user_id # current_user_id.value
    THEN [resp |-> HTTPException("update_user", 403,
                                 "You can only update your own profile", ""),
          rows |-> users]
    ELSE
    LET result == {u \in users : u.id = user_id} IN
    IF result = {}
    THEN [resp |-> HTTPException("update_user", 404, "User not found", ""),
          rows |-> users]
    ELSE
    LET user == CHOOSE u \in result : TRUE
        named == IF user_update.name # Absent
                 THEN [user EXCEPT !.name = user_update.name] ELSE user IN
    IF /\ user_update.email # Absent
       /\ \E u \in users : u.email = user_update.email /\ u.id # user_id
    THEN [resp |-> HTTPException("update_user", 400, "Email already in use", ""),
          rows |-> users]
    ELSE IF user_update.password # Absent /\ too_long(user_update.password)
    THEN [resp |-> ServerError("update_user"), rows |-> users]
    ELSE
    LET mailed == IF user_update.email # Absent
                  THEN [named EXCEPT !.email = user_update.email] ELSE named
        hashed == IF user_update.password # Absent
                  THEN [mailed EXCEPT
                          !.password = hash_password(user_update.password, salt)]
                  ELSE mailed IN
    [resp |-> [op |-> "update_user", status |-> 200, detail |-> "",
               www_authenticate |-> "", cookie |-> NoCookie,
               body |-> [NoBody EXCEPT !.id = hashed.id, !.name = hashed.name,
                                       !.email = hashed.email]],
     rows |-> (users \ {user}) \cup {hashed}]

\* DELETE /users/{user_id}: the user_id columns of trainings, devotions,
\* personal_information and disciple_information are foreign keys on
\* users.id without ON DELETE, so the DELETE of a user who owns rows fails
\* at the commit of get_db, which rolls back
delete_user(user_id, token) ==
    LET current_user_id == get_current_user(token) IN
    IF current_user_id.raised = "500"
    THEN [resp |-> ServerError("delete_user"), rows |-> users]
    ELSE IF current_user_id.raised = "401"
    THEN [resp |-> HTTPException("delete_user", 401, "Invalid or expired token",
                                 "Bearer"), rows |-> users]
    ELSE IF user_id # current_user_id.value
    THEN [resp |-> HTTPException("delete_user", 403,
                                 "You can only delete your own profile", ""),
          rows |-> users]
    ELSE
    LET result == {u \in users : u.id = user_id} IN
    IF result = {}
    THEN [resp |-> HTTPException("delete_user", 404, "User not found", ""),
          rows |-> users]
    ELSE IF \/ \E t \in trainings \cup devotions : t.user_id = user_id
            \/ \E i \in personal_information : i.user_id = user_id
            \/ \E i \in disciple_information : i.user_id = user_id
    THEN [resp |-> ServerError("delete_user"), rows |-> users]
    ELSE [resp |-> [op |-> "delete_user", status |-> 204, detail |-> "",
                    www_authenticate |-> "", cookie |-> NoCookie, body |-> NoBody],
          rows |-> users \ result]

\* GET /users/ : no dependency on get_current_user
get_users ==
    [op |-> "get_users", status |-> 200, detail |-> "", www_authenticate |-> "",
     cookie |-> NoCookie,
     body |-> [NoBody EXCEPT
                 !.items = {[id |-> u.id, name |-> u.name, email |-> u.email]
                               : u \in users}]]

\* a 2xx answer of a training or devotion endpoint that carries rows
Rows(op, status_code, rows) ==
    [op |-> op, status |-> status_code, detail |-> "", www_authenticate |-> "",
     cookie |-> NoCookie, body |-> [NoBody EXCEPT !.items = rows]]

\* POST /api/trainings/{user_id} : no dependency on get_current_user
create_training(user_id, training) ==
    IF {u \in users : u.id = user_id} = {}
    THEN [resp |-> HTTPException("create_training", 404, "User not found", ""),
          rows |-> trainings]
    ELSE
    LET db_training == [id |-> serial.trainings, user_id |-> user_id,
                        title |-> training.title] IN
    [resp |-> Rows("create_training", 201, {db_training}),
     rows |-> trainings \cup {db_training}]

\* GET /api/trainings/{user_id}
get_user_trainings(user_id) ==
    Rows("get_user_trainings", 200, {t \in trainings : t.user_id = user_id})

\* DELETE /api/trainings/{user_id}/{training_id}
delete_training(user_id, training_id) ==
    LET result == {t \in trainings : t.id = training_id /\ t.user_id = user_id} IN
    IF result = {}
    THEN [resp |-> HTTPException("delete_training", 404, "Training not found", ""),
          rows |-> trainings]
    ELSE [resp |-> Rows("delete_training", 204, {}), rows |-> trainings \ result]

\* POST /api/devotions/{user_id}
create_devotion(user_id, devotion, token) ==
    LET current_user_id == get_current_user(token) IN
    IF current_user_id.raised = "500"
    THEN [resp |-> ServerError("create_devotion"), rows |-> devotions]
    ELSE IF current_user_id.raised = "401"
    THEN [resp |-> HTTPException("create_devotion", 401,
                                 "Invalid or expired token", "Bearer"),
          rows |-> devotions]
    ELSE IF user_id # current_user_id.value
    THEN [resp |-> HTTPException("create_devotion", 403,
                                 "You can only access your own information", ""),
          rows |-> devotions]
    ELSE IF {u \in users : u.id = user_id} = {}
    THEN [resp |-> HTTPException("create_devotion", 404, "User not found", ""),
          rows |-> devotions]
    ELSE
    LET db_devotion == [id |-> serial.devotions, user_id |-> user_id,
                        title |-> devotion.title] IN
    [resp |-> Rows("create_devotion", 201, {db_devotion}),
     rows |-> devotions \cup {db_devotion}]

\* GET /api/devotions/{user_id}
get_user_devotions(user_id, token) ==
    LET current_user_id == get_current_user(token) IN
    IF current_user_id.raised = "500" THEN ServerError("get_user_devotions")
    ELSE IF current_user_id.raised = "401"
    THEN HTTPException("get_user_devotions", 401, "Invalid or expired token", "Bearer")
    ELSE IF user_id # current_user_id.value
    THEN HTTPException("get_user_devotions", 403,
                       "You can only access your own information", "")
    ELSE Rows("get_user_devotions", 200, {d \in devotions : d.user_id = user_id})

\* DELETE /api/devotions/{user_id}/{devotion_id}
delete_devotion(user_id, devotion_id, token) ==
    LET current_user_id == get_current_user(token) IN
    IF current_user_id.raised = "500"
    THEN [resp |-> ServerError("delete_devotion"), rows |-> devotions]
    ELSE IF current_user_id.raised = "401"
    THEN [resp |-> HTTPException("delete_devotion", 401,
                                 "Invalid or expired token", "Bearer"),
          rows |-> devotions]
    ELSE IF user_id # current_user_id.value
    THEN [resp |-> HTTPException("delete_devotion", 403,
                                 "You can only delete your own information", ""),
          rows |-> devotions]
    ELSE
    LET result == {d \in devotions : d.id = devotion_id /\ d.user_id = user_id} IN
    IF result = {}
    THEN [resp |-> HTTPException("delete_devotion", 404, "Devotion not found", ""),
          rows |-> devotions]
    ELSE [resp |-> Rows("delete_devotion", 204, {}), rows |-> devotions \ result]

\* the routes of training_category.py that write, each behind
\* get_current_user; rows is the table after the handler's db.commit()
Authenticated(op, token) ==
    LET current_user_id == get_current_user(token) IN
    IF current_user_id.raised = "500" THEN ServerError(op)
    ELSE IF current_user_id.raised = "401"
    THEN HTTPException(op, 401, "Invalid or expired token", "Bearer")
    ELSE NoResp

\* POST /api/training-categories/ : name is a unique column
create_category(category, token) ==
    IF Authenticated("create_category", token) # NoResp
    THEN [resp |-> Authenticated("create_category", token),
          rows |-> training_category]
    ELSE IF \E c \in training_category : c.name = category.name
    THEN [resp |-> ServerError("create_category"), rows |-> training_category]
    ELSE
    LET db_category == [id |-> serial.training_category,
                        name |-> category.name, type |-> category.type] IN
    [resp |-> Rows("create_category", 200, {db_category}),
     rows |-> training_category \cup {db_category}]

\* PUT /api/training-categories/{category_id}
update_category(category_id, category_update, token) ==
    IF Authenticated("update_category", token) # NoResp
    THEN [resp |-> Authenticated("update_category", token),
          rows |-> training_category]
    ELSE
    LET result == {c \in training_category : c.id = category_id} IN
    IF result = {}
    THEN [resp |-> HTTPException("update_category", 404, "Category not found", ""),
          rows |-> training_category]
    ELSE
    LET category == CHOOSE c \in result : TRUE
        updated  == [category EXCEPT
                       !.name = IF category_update.name = Absent
                                THEN @ ELSE category_update.name,
                       !.type = IF category_update.type = Absent
                                THEN @ ELSE category_update.type] IN
    IF \E c \in training_category \ result : c.name = updated.name
    THEN [resp |-> ServerError("update_category"), rows |-> training_category]
    ELSE [resp |-> Rows("update_category", 200, {updated}),
          rows |-> (training_category \ result) \cup {updated}]

\* DELETE /api/training-categories/{category_id}; the trainings of the
\* model name no category
delete_category(category_id, token) ==
    IF Authenticated("delete_category", token) # NoResp
    THEN [resp |-> Authenticated("delete_category", token),
          rows |-> training_category]
    ELSE
    LET result == {c \in training_category : c.id = category_id} IN
    IF result = {}
    THEN [resp |-> HTTPException("delete_category", 404, "Category not found", ""),
          rows |-> training_category]
    ELSE [resp |-> Rows("delete_category", 204, {}),
          rows |-> training_category \ result]

\* the start of a route on /{user_id} behind get_current_user: the rejection
\* it raises before it touches the database, NoResp when it goes on
Owned(op, user_id, token, detail) ==
    IF Authenticated(op, token) # NoResp THEN Authenticated(op, token)
    ELSE IF user_id # get_current_user(token).value
    THEN HTTPException(op, 403, detail, "")
    ELSE NoResp

\* POST /api/personal-info/{user_id}
create_personal_info(user_id, info, token) ==
    IF Owned("create_personal_info", user_id, token,
             "You can only access your own information") # NoResp
    THEN [resp |-> Owned("create_personal_info", user_id, token,
                         "You can only access your own information"),
          rows |-> personal_information]
    ELSE IF {u \in users : u.id = user_id} = {}
    THEN [resp |-> HTTPException("create_personal_info", 404, "User not found", ""),
          rows |-> personal_information]
    ELSE
    LET db_info == [id |-> serial.personal_information, user_id |-> user_id,
                    first_name |-> info.first_name] IN
    [resp |-> Rows("create_personal_info", 201, {db_info}),
     rows |-> personal_information \cup {db_info}]

\* GET /api/personal-info/{user_id}: scalar_one_or_none() raises
\* MultipleResultsFound when the query returns more than one row
get_personal_info(user_id, token) ==
    IF Owned("get_personal_info", user_id, token,
             "You can only access your own information") # NoResp
    THEN Owned("get_personal_info", user_id, token,
               "You can only access your own information")
    ELSE
    LET result == {i \in personal_information : i.user_id = user_id} IN
    IF Cardinality(result) > 1 THEN ServerError("get_personal_info")
    ELSE IF result = {}
    THEN HTTPException("get_personal_info", 404, "Personal information not found", "")
    ELSE Rows("get_personal_info", 200, result)

\* update_personal_info that looks the row up before it compares the ids
update_personal_info_lookup_first(user_id, info_update, token) ==
    LET result == {i \in personal_information : i.user_id = user_id} IN
    IF Authenticated("update_personal_info", token) # NoResp
    THEN [resp |-> Authenticated("update_personal_info", token),
          rows |-> personal_information]
    ELSE IF result = {}
    THEN [resp |-> HTTPException("update_personal_info", 404,
                                 "Personal information not found", ""),
          rows |-> personal_information]
    ELSE IF user_id # get_current_user(token).value
    THEN [resp |-> HTTPException("update_personal_info", 403,
                                 "You can only update your own information", ""),
          rows |-> personal_information]
    ELSE
    LET info == CHOOSE i \in result : TRUE
        updated == IF info_update.first_name = Absent THEN info
                   ELSE [info EXCEPT !.first_name = info_update.first_name] IN
    [resp |-> Rows("update_personal_info", 200, {updated}),
     rows |-> (personal_information \ result) \cup {updated}]

\* PUT /api/personal-info/{user_id}
update_personal_info(user_id, info_update, token) ==
    IF Owned("update_personal_info", user_id, token,
             "You can only update your own information") # NoResp
    THEN [resp |-> Owned("update_personal_info", user_id, token,
                         "You can only update your own information"),
          rows |-> personal_information]
    ELSE
    LET result == {i \in personal_information : i.user_id = user_id} IN
    IF Cardinality(result) > 1
    THEN [resp |-> ServerError("update_personal_info"), rows |-> personal_information]
    ELSE IF result = {}
    THEN [resp |-> HTTPException("update_personal_info", 404, "Personal information not found", ""),
          rows |-> personal_information]
    ELSE
    LET info == CHOOSE i \in result : TRUE
        updated == IF info_update.first_name = Absent THEN info
                   ELSE [info EXCEPT !.first_name = info_update.first_name] IN
    [resp |-> Rows("update_personal_info", 200, {updated}),
     rows |-> (personal_information \ result) \cup {updated}]

\* DELETE /api/personal-info/{user_id}
delete_personal_info(user_id, token) ==
    IF Owned("delete_personal_info", user_id, token,
             "You can only delete your own information") # NoResp
    THEN [resp |-> Owned("delete_personal_info", user_id, token,
                         "You can only delete your own information"),
          rows |-> personal_information]
    ELSE
    LET result == {i \in personal_information : i.user_id = user_id} IN
    IF Cardinality(result) > 1
    THEN [resp |-> ServerError("delete_personal_info"), rows |-> personal_information]
    ELSE IF result = {}
    THEN [resp |-> HTTPException("delete_personal_info", 404, "Personal information not found", ""),
          rows |-> personal_information]
    ELSE [resp |-> Rows("delete_personal_info", 204, {}), rows |-> personal_information \ result]

\* POST /api/disciple-info/{user_id}
create_disciple_info(user_id, info, token) ==
    IF Owned("create_disciple_info", user_id, token,
             "You can only access your own information") # NoResp
    THEN [resp |-> Owned("create_disciple_info", user_id, token,
                         "You can only access your own information"),
          rows |-> disciple_information]
    ELSE IF {u \in users : u.id = user_id} = {}
    THEN [resp |-> HTTPException("create_disciple_info", 404, "User not found", ""),
          rows |-> disciple_information]
    ELSE IF \E i \in disciple_information : i.user_id = user_id
    THEN [resp |-> HTTPException("create_disciple_info", 400,
                     "Disciple information already exists for this user", ""),
          rows |-> disciple_information]
    ELSE
    LET db_info == [id |-> serial.disciple_information, user_id |-> user_id,
                    group_name |-> info.group_name] IN
    [resp |-> Rows("create_disciple_info", 201, {db_info}),
     rows |-> disciple_information \cup {db_info}]

\* GET /api/disciple-info/{user_id}: scalar_one_or_none() raises
\* MultipleResultsFound when the query returns more than one row
get_disciple_info(user_id, token) ==
    IF Owned("get_disciple_info", user_id, token,
             "You can only access your own information") # NoResp
    THEN Owned("get_disciple_info", user_id, token,
               "You can only access your own information")
    ELSE
    LET result == {i \in disciple_information : i.user_id = user_id} IN
    IF Cardinality(result) > 1 THEN ServerError("get_disciple_info")
    ELSE IF result = {}
    THEN HTTPException("get_disciple_info", 404, "Disciple information not found", "")
    ELSE Rows("get_disciple_info", 200, result)

\* PUT /api/disciple-info/{user_id}
update_disciple_info(user_id, info_update, token) ==
    IF Owned("update_disciple_info", user_id, token,
             "You can only update your own information") # NoResp
    THEN [resp |-> Owned("update_disciple_info", user_id, token,
                         "You can only update your own information"),
          rows |-> disciple_information]
    ELSE
    LET result == {i \in disciple_information : i.user_id = user_id} IN
    IF Cardinality(result) > 1
    THEN [resp |-> ServerError("update_disciple_info"), rows |-> disciple_information]
    ELSE IF result = {}
    THEN [resp |-> HTTPException("update_disciple_info", 404, "Disciple information not found", ""),
          rows |-> disciple_information]
    ELSE
    LET info == CHOOSE i \in result : TRUE
        updated == IF info_update.group_name = Absent THEN info
                   ELSE [info EXCEPT !.group_name = info_update.group_name] IN
    [resp |-> Rows("update_disciple_info", 200, {updated}),
     rows |-> (disciple_information \ result) \cup {updated}]

\* DELETE /api/disciple-info/{user_id}
delete_disciple_info(user_id, token) ==
    IF Owned("delete_disciple_info", user_id, token,
             "You can only delete your own information") # NoResp
    THEN [resp |-> Owned("delete_disciple_info", user_id, token,
                         "You can only delete your own information"),
          rows |-> disciple_information]
    ELSE
    LET result == {i \in disciple_information : i.user_id = user_id} IN
    IF Cardinality(result) > 1
    THEN [resp |-> ServerError("delete_disciple_info"), rows |-> disciple_information]
    ELSE IF result = {}
    THEN [resp |-> HTTPException("delete_disciple_info", 404, "Disciple information not found", ""),
          rows |-> disciple_information]
    ELSE [resp |-> Rows("delete_disciple_info", 204, {}), rows |-> disciple_information \ result]

\* --------------------------------------------------------- request inputs
NoReq == [op |-> "", token |-> NoToken, cookie |-> NoToken, email |-> "",
          user_id |-> None]

\* tokens a client can present: the ones handed out, a refresh token with
\* a modified signature segment, tokens signed by somebody else, and junk
Forged ==
    {Garbage}
    \cup {[k.tok EXCEPT !.sig = BadSig] : k \in {i \in issued : i.tok.type = "refresh"}}
    \cup {[kind |-> "jwt", sig |-> key, user_id |-> 1, type |-> "access",
           iat |-> now, exp |-> now + minutes(ACCESS_TOKEN_EXPIRATION_MINUTES)]
            : key \in ForeignKeys}

Presentable == {k.tok : k \in issued} \cup Forged

\* what a client puts in an Authorization: Bearer header
Bearer == {k.tok : k \in issued} \cup {Garbage}

\* clients keep what they are handed while they have room for it
Keep(minted) ==
    IF Cardinality(issued \cup minted) <= MaxIssued
    THEN issued \cup minted ELSE issued

\* the id sequences of empty tables
NoRows == [trainings |-> 1, devotions |-> 1, personal_information |-> 1,
           disciple_information |-> 1, training_category |-> 1]

\* ---------------------------------------------------------------- actions
LegacyTables ==
    {{}, {[id |-> 1, name |-> "ann", email |-> "a@x", password |-> NullPassword]}}

Init ==
    /\ env \in [SECRET_KEY : Secrets \cup {NoSecret}, DATABASE : BOOLEAN]
    /\ proc = "init"
    /\ SECRET_KEY = NoSecret
    /\ \/ schema = "legacy" /\ users \in LegacyTables
       \/ schema = "current" /\ users = {}
    /\ nextId = Cardinality(users) + 1
    /\ now = 0
    /\ ticks = 0
    /\ issued = {}
    /\ trainings = {}
    /\ devotions = {}
    /\ serial = NoRows
    /\ bcrypt = [rejects_long |-> FALSE, hashed |-> {}, checked |-> {}]
    /\ personal_information = {}
    /\ disciple_information = {}
    /\ training_category = {}
    /\ pending = {}
    /\ req = NoReq
    /\ resp = NoResp

\* alembic upgrade: env.py imports web.database, which needs the database
\* settings; add_column fails on a table that has the column and the
\* exception is swallowed
AlembicUpgrade ==
    /\ env.DATABASE
    /\ IF schema = "legacy"
       THEN /\ schema' = "current"
            /\ users' = upgrade(users)
       ELSE UNCHANGED <<schema, users>>
    /\ UNCHANGED <<env, proc, SECRET_KEY, nextId, now, ticks,
                   issued, req, resp, trainings, devotions, serial,
                   bcrypt, personal_information, disciple_information,
                   training_category, pending>>

\* import of main: web.database validates the database settings and raises
\* ValueError; web.security reads SECRET_KEY.  The application is started
\* on the schema models.User declares.
Startup ==
    /\ proc = "init"
    /\ schema = "current"
    /\ IF ~env.DATABASE
       THEN /\ proc' = "failed"
            /\ UNCHANGED SECRET_KEY
       ELSE /\ proc' = "serving"
            /\ SECRET_KEY' = env.SECRET_KEY
    /\ UNCHANGED <<env, schema, users, nextId, now, ticks,
                   issued, req, resp, trainings, devotions, serial,
                   bcrypt, personal_information, disciple_information,
                   training_category, pending>>

Tick ==
    /\ proc = "serving"
    /\ ticks < MaxTicks
    /\ \E d \in Deltas : now' = now + d
    /\ ticks' = ticks + 1
    /\ UNCHANGED <<env, proc, SECRET_KEY, schema, users, nextId,
                   issued, req, resp, trainings, devotions, serial,
                   bcrypt, personal_information, disciple_information,
                   training_category, pending>>

CreateUserWith(passwords, salts) ==
    /\ proc = "serving"
    /\ nextId <= MaxUsers
    /\ \E name \in Names, email \in Emails, password \in passwords, salt \in salts :
        LET r == create_user([name |-> name, email |-> email,
                              password |-> password], salt) IN
        /\ users' = r.rows
        /\ nextId' = IF r.resp.status = 201 THEN nextId + 1 ELSE nextId
        /\ req' = [NoReq EXCEPT !.op = "create_user", !.email = email]
        /\ resp' = r.resp
    /\ UNCHANGED <<env, proc, SECRET_KEY, schema, now, ticks, issued,
                   trainings, devotions, serial,
                   bcrypt, personal_information, disciple_information,
                   training_category, pending>>

CreateUser == CreateUserWith(Passwords, Salts)

\* roll = the utcnow() reading after which the clock moves to the next
\* second while the handler runs (0: it does not)
Bump(roll, n) == IF roll # 0 /\ roll <= n THEN 1 ELSE 0

\* the clock readings matter only to a request that mints tokens
Rolls(mints, n) == IF mints /\ ticks < MaxTicks THEN 0..n ELSE {0}

\* a login that re-hashes the stored password when it succeeds
LoginRehashing ==
    /\ proc = "serving"
    /\ \E email \in Emails, password \in Passwords :
       LET credentials == [email |-> email, password |-> password] IN
       \E roll \in Rolls(login(credentials, now, now, now, now).resp.status = 200, 3) :
       \E r \in {login(credentials, now, now + Bump(roll, 1),
                       now + Bump(roll, 2), now + Bump(roll, 3))} :
           /\ req' = [NoReq EXCEPT !.op = "login", !.email = email]
           /\ resp' = r.resp
           /\ issued' = Keep(r.minted)
           /\ now' = now + Bump(roll, 3)
           /\ ticks' = ticks + Bump(roll, 3)
           /\ users' = {IF u.email = email /\ r.resp.status = 200
                        THEN [u EXCEPT !.password = hash_password(password, "s2")]
                        ELSE u : u \in users}
    /\ UNCHANGED <<env, proc, SECRET_KEY, schema, nextId,
                   trainings, devotions, serial,
                   bcrypt, personal_information, disciple_information,
                   training_category, pending>>

LoginWith(passwords) ==
    /\ proc = "serving"
    /\ \E email \in Emails, password \in passwords :
       LET credentials == [email |-> email, password |-> password] IN
       \E roll \in Rolls(login(credentials, now, now, now, now).resp.status = 200, 3) :
       \E r \in {login(credentials, now, now + Bump(roll, 1),
                       now + Bump(roll, 2), now + Bump(roll, 3))} :
           /\ req' = [NoReq EXCEPT !.op = "login", !.email = email]
           /\ resp' = r.resp
           /\ issued' = Keep(r.minted)
           /\ now' = now + Bump(roll, 3)
           /\ ticks' = ticks + Bump(roll, 3)
    /\ UNCHANGED <<env, proc, SECRET_KEY, schema, users, nextId,
                   trainings, devotions, serial,
                   bcrypt, personal_information, disciple_information,
                   training_category, pending>>

Login == LoginWith(Passwords)

\* a refresh request carries the token in the body, or, as a browser that
\* was handed the HttpOnly cookie by login does, in the cookie alone
RefreshRequests ==
    {[refresh_token |-> token, cookie |-> NoToken] : token \in Presentable}
    \cup {[refresh_token |-> NoToken, cookie |-> k.tok]
            : k \in {i \in issued : i.tok.type = "refresh"}}

Refresh ==
    /\ proc = "serving"
    /\ \E request \in RefreshRequests :
       \E roll \in Rolls(refresh_access_token(request, now, now).resp.status = 200, 1) :
       \E r \in {refresh_access_token(request, now, now + Bump(roll, 1))} :
           /\ req' = [NoReq EXCEPT !.op = "refresh",
                                   !.token = request.refresh_token,
                                   !.cookie = request.cookie]
           /\ resp' = r.resp
           /\ issued' = Keep(r.minted)
           /\ now' = now + Bump(roll, 1)
           /\ ticks' = ticks + Bump(roll, 1)
    /\ UNCHANGED <<env, proc, SECRET_KEY, schema, users, nextId,
                   trainings, devotions, serial,
                   bcrypt, personal_information, disciple_information,
                   training_category, pending>>

\* a logout that invalidates every outstanding token on the server
LogoutRevoking ==
    /\ proc = "serving"
    /\ req' = [NoReq EXCEPT !.op = "logout"]
    /\ resp' = logout.resp
    /\ SECRET_KEY' = "rotated"
    /\ UNCHANGED <<env, proc, schema, users, nextId, now, ticks, issued,
                   trainings, devotions, serial,
                   bcrypt, personal_information, disciple_information,
                   training_category, pending>>

Logout ==
    /\ proc = "serving"
    /\ req' = [NoReq EXCEPT !.op = "logout"]
    /\ resp' = logout.resp
    /\ UNCHANGED <<env, proc, SECRET_KEY, schema, users, nextId, now, ticks,
                   issued, trainings, devotions, serial,
                   bcrypt, personal_information, disciple_information,
                   training_category, pending>>

VerifyToken ==
    /\ proc = "serving"
    /\ \E token \in Presentable :
        /\ req' = [NoReq EXCEPT !.op = "verify", !.token = token]
        /\ resp' = verify_token(token).resp
    /\ UNCHANGED <<env, proc, SECRET_KEY, schema, users, nextId, now, ticks,
                   issued, trainings, devotions, serial,
                   bcrypt, personal_information, disciple_information,
                   training_category, pending>>

GetUser ==
    /\ proc = "serving"
    /\ \E token \in Bearer, user_id \in PathIds :
        /\ req' = [NoReq EXCEPT !.op = "get_user", !.token = token,
                                !.user_id = user_id]
        /\ resp' = get_user(user_id, token).resp
    /\ UNCHANGED <<env, proc, SECRET_KEY, schema, users, nextId, now, ticks,
                   issued, trainings, devotions, serial,
                   bcrypt, personal_information, disciple_information,
                   training_category, pending>>

UserUpdates == [name : {Absent} \cup NewNames, email : {Absent} \cup Emails,
                password : {Absent} \cup Passwords]

UpdateUserWith(updates, salts) ==
    /\ proc = "serving"
    /\ \E token \in Bearer, user_id \in PathIds, user_update \in updates,
          salt \in salts :
       \E r \in {update_user(user_id, user_update, token, salt)} :
        /\ users' = r.rows
        /\ req' = [NoReq EXCEPT !.op = "update_user", !.token = token,
                                !.user_id = user_id,
                                !.email = IF user_update.email = Absent
                                          THEN "" ELSE user_update.email]
        /\ resp' = r.resp
    /\ UNCHANGED <<env, proc, SECRET_KEY, schema, nextId, now, ticks, issued,
                   trainings, devotions, serial,
                   bcrypt, personal_information, disciple_information,
                   training_category, pending>>

UpdateUser == UpdateUserWith(UserUpdates, Salts)

DeleteUser ==
    /\ proc = "serving"
    /\ \E token \in Bearer, user_id \in PathIds :
       \E r \in {delete_user(user_id, token)} :
        /\ users' = r.rows
        /\ req' = [NoReq EXCEPT !.op = "delete_user", !.token = token,
                                !.user_id = user_id]
        /\ resp' = r.resp
    /\ UNCHANGED <<env, proc, SECRET_KEY, schema, nextId, now, ticks, issued,
                   trainings, devotions, serial,
                   bcrypt, personal_information, disciple_information,
                   training_category, pending>>

GetUsers ==
    /\ proc = "serving"
    /\ req' = [NoReq EXCEPT !.op = "get_users"]
    /\ resp' = get_users
    /\ UNCHANGED <<env, proc, SECRET_KEY, schema, users, nextId, now, ticks,
                   issued, trainings, devotions, serial,
                   bcrypt, personal_information, disciple_information,
                   training_category, pending>>

\* the training endpoints take no credentials: the request is sent without
\* an Authorization header
CreateTraining ==
    /\ proc = "serving"
    /\ serial.trainings <= MaxRows
    /\ \E user_id \in PathIds, title \in Titles :
       \E r \in {create_training(user_id, [title |-> title])} :
        /\ trainings' = r.rows
        /\ serial' = IF r.resp.status = 201
                     THEN [serial EXCEPT !.trainings = @ + 1] ELSE serial
        /\ req' = [NoReq EXCEPT !.op = "create_training", !.user_id = user_id]
        /\ resp' = r.resp
    /\ UNCHANGED <<env, proc, SECRET_KEY, schema, users, nextId, now, ticks,
                   issued, devotions,
                   bcrypt, personal_information, disciple_information,
                   training_category, pending>>

GetUserTrainings ==
    /\ proc = "serving"
    /\ \E user_id \in PathIds :
        /\ req' = [NoReq EXCEPT !.op = "get_user_trainings", !.user_id = user_id]
        /\ resp' = get_user_trainings(user_id)
    /\ UNCHANGED <<env, proc, SECRET_KEY, schema, users, nextId, now, ticks,
                   issued, trainings, devotions, serial,
                   bcrypt, personal_information, disciple_information,
                   training_category, pending>>

DeleteTraining ==
    /\ proc = "serving"
    /\ \E user_id \in PathIds, training_id \in 1..MaxRows :
       \E r \in {delete_training(user_id, training_id)} :
        /\ trainings' = r.rows
        /\ req' = [NoReq EXCEPT !.op = "delete_training", !.user_id = user_id]
        /\ resp' = r.resp
    /\ UNCHANGED <<env, proc, SECRET_KEY, schema, users, nextId, now, ticks,
                   issued, devotions, serial,
                   bcrypt, personal_information, disciple_information,
                   training_category, pending>>

CreateDevotion ==
    /\ proc = "serving"
    /\ serial.devotions <= MaxRows
    /\ \E token \in Bearer, user_id \in PathIds, title \in Titles :
       \E r \in {create_devotion(user_id, [title |-> title], token)} :
        /\ devotions' = r.rows
        /\ serial' = IF r.resp.status = 201
                     THEN [serial EXCEPT !.devotions = @ + 1] ELSE serial
        /\ req' = [NoReq EXCEPT !.op = "create_devotion", !.token = token,
                                !.user_id = user_id]
        /\ resp' = r.resp
    /\ UNCHANGED <<env, proc, SECRET_KEY, schema, users, nextId, now, ticks,
                   issued, trainings,
                   bcrypt, personal_information, disciple_information,
                   training_category, pending>>

GetUserDevotions ==
    /\ proc = "serving"
    /\ \E token \in Bearer, user_id \in PathIds :
        /\ req' = [NoReq EXCEPT !.op = "get_user_devotions", !.token = token,
                                !.user_id = user_id]
        /\ resp' = get_user_devotions(user_id, token)
    /\ UNCHANGED <<env, proc, SECRET_KEY, schema, users, nextId, now, ticks,
                   issued, trainings, devotions, serial,
                   bcrypt, personal_information, disciple_information,
                   training_category, pending>>

DeleteDevotion ==
    /\ proc = "serving"
    /\ \E token \in Bearer, user_id \in PathIds, devotion_id \in 1..MaxRows :
       \E r \in {delete_devotion(user_id, devotion_id, token)} :
        /\ devotions' = r.rows
        /\ req' = [NoReq EXCEPT !.op = "delete_devotion", !.token = token,
                                !.user_id = user_id]
        /\ resp' = r.resp
    /\ UNCHANGED <<env, proc, SECRET_KEY, schema, users, nextId, now, ticks,
                   issued, trainings, serial,
                   bcrypt, personal_information, disciple_information,
                   training_category, pending>>

Next ==
    \/ AlembicUpgrade
    \/ Startup
    \/ Tick
    \/ CreateUser
    \/ Login
    \/ Refresh
    \/ Logout
    \/ VerifyToken
    \/ GetUser

Spec == Init /\ [][Next]_vars

\* --------------------------------- the session endpoints of a running server
\* the application is up, with or without a signing secret, on a migrated
\* database in which one user has registered
SessionInit ==
    /\ env \in [SECRET_KEY : Secrets \cup {NoSecret}, DATABASE : {TRUE}]
    /\ proc = "serving"
    /\ SECRET_KEY = env.SECRET_KEY
    /\ schema = "current"
    /\ users \in {{[id |-> 1, name |-> name, email |-> email,
                    password |-> hash_password(password, salt)]}
                    : name \in Names, email \in Emails, password \in Passwords,
                      salt \in Salts}
    /\ nextId = 2
    /\ now = 0
    /\ ticks = 0
    /\ issued = {}
    /\ trainings = {}
    /\ devotions = {}
    /\ serial = NoRows
    /\ bcrypt = [rejects_long |-> FALSE, hashed |-> {}, checked |-> {}]
    /\ personal_information = {}
    /\ disciple_information = {}
    /\ training_category = {}
    /\ pending = {}
    /\ req = NoReq
    /\ resp = NoResp

SessionNext ==
    \/ Tick
    \/ Login
    \/ Refresh
    \/ Logout
    \/ VerifyToken
    \/ GetUser

SessionSpec == SessionInit /\ [][SessionNext]_vars

\* ------------------------------------------- the password hashing functions
\* models.hash_password and models.verify_password called on their own,
\* under either behaviour of the installed bcrypt
HashInit ==
    /\ env \in [SECRET_KEY : Secrets, DATABASE : {TRUE}]
    /\ proc = "serving"
    /\ SECRET_KEY = env.SECRET_KEY
    /\ schema = "current"
    /\ users = {}
    /\ nextId = 1
    /\ now = 0
    /\ ticks = 0
    /\ issued = {}
    /\ trainings = {}
    /\ devotions = {}
    /\ serial = NoRows
    /\ bcrypt \in [rejects_long : BOOLEAN, hashed : {{}}, checked : {{}}]
    /\ personal_information = {}
    /\ disciple_information = {}
    /\ training_category = {}
    /\ pending = {}
    /\ req = NoReq
    /\ resp = NoResp

\* hash_password(password): gensalt draws 16 random bytes, a salt that no
\* earlier call drew
HashPassword ==
    /\ Cardinality(bcrypt.hashed) < MaxHashes
    /\ \E password \in Passwords \cup LongPasswords,
          salt \in SaltPool \ {h.salt : h \in bcrypt.hashed} :
        bcrypt' = [bcrypt EXCEPT !.hashed = @ \cup
                    {[password |-> password, salt |-> salt,
                      out |-> IF too_long(password) THEN Raised("ValueError")
                              ELSE Returned(hash_password(password, salt))]}]
    /\ UNCHANGED <<env, proc, SECRET_KEY, schema, users, nextId, now, ticks,
                   issued, trainings, devotions, serial, personal_information,
                   disciple_information, training_category, pending, req, resp>>

\* verify_password(password, hashed_password) on a hash made before
VerifyPassword ==
    /\ Cardinality(bcrypt.checked) < MaxHashes
    /\ \E password \in Passwords \cup LongPasswords,
          h \in {g \in bcrypt.hashed : g.out.raised = ""} :
        bcrypt' = [bcrypt EXCEPT !.checked = @ \cup
                    {[password |-> password, of |-> h.password,
                      hashed |-> h.out.value,
                      out |-> verify_password(password, h.out.value)]}]
    /\ UNCHANGED <<env, proc, SECRET_KEY, schema, users, nextId, now, ticks,
                   issued, trainings, devotions, serial, personal_information,
                   disciple_information, training_category, pending, req, resp>>

HashNext ==
    \/ HashPassword
    \/ VerifyPassword

HashSpec == HashInit /\ [][HashNext]_vars

\* --------------------------------------------- the training category routes
\* training_category.router as an application that includes it serves it
\* (main.py does not include it)
CategoryUpdates == [name : {Absent} \cup CategoryNames, type : {Absent}]

CreateCategory ==
    /\ proc = "serving"
    /\ serial.training_category <= MaxRows
    /\ \E token \in Bearer, name \in CategoryNames, type \in CategoryTypes :
       \E r \in {create_category([name |-> name, type |-> type], token)} :
        /\ training_category' = r.rows
        /\ serial' = IF r.resp.status = 200
                     THEN [serial EXCEPT !.training_category = @ + 1] ELSE serial
        /\ req' = [NoReq EXCEPT !.op = "create_category", !.token = token]
        /\ resp' = r.resp
    /\ UNCHANGED <<env, proc, SECRET_KEY, schema, users, nextId, now, ticks,
                   issued, trainings, devotions, bcrypt, personal_information,
                   disciple_information, pending>>

UpdateCategory ==
    /\ proc = "serving"
    /\ \E token \in Bearer, category_id \in 1..MaxRows,
          category_update \in CategoryUpdates :
       \E r \in {update_category(category_id, category_update, token)} :
        /\ training_category' = r.rows
        /\ req' = [NoReq EXCEPT !.op = "update_category", !.token = token]
        /\ resp' = r.resp
    /\ UNCHANGED <<env, proc, SECRET_KEY, schema, users, nextId, now, ticks,
                   issued, trainings, devotions, serial, bcrypt,
                   personal_information, disciple_information, pending>>

DeleteCategory ==
    /\ proc = "serving"
    /\ \E token \in Bearer, category_id \in 1..MaxRows :
       \E r \in {delete_category(category_id, token)} :
        /\ training_category' = r.rows
        /\ req' = [NoReq EXCEPT !.op = "delete_category", !.token = token]
        /\ resp' = r.resp
    /\ UNCHANGED <<env, proc, SECRET_KEY, schema, users, nextId, now, ticks,
                   issued, trainings, devotions, serial, bcrypt,
                   personal_information, disciple_information, pending>>

CategoryNext ==
    \/ Login
    \/ CreateCategory
    \/ UpdateCategory
    \/ DeleteCategory

CategorySpec == SessionInit /\ [][CategoryNext]_vars

\* ------------------------------------------------------ the profile routes

CreatePersonalInfo ==
    /\ proc = "serving"
    /\ serial.personal_information <= MaxInfos
    /\ \E token \in Bearer, user_id \in PathIds, v \in FirstNames :
       \E r \in {create_personal_info(user_id, [first_name |-> v], token)} :
        /\ personal_information' = r.rows
        /\ serial' = IF r.resp.status = 201
                     THEN [serial EXCEPT !.personal_information = @ + 1] ELSE serial
        /\ req' = [NoReq EXCEPT !.op = "create_personal_info", !.token = token,
                                !.user_id = user_id]
        /\ resp' = r.resp
    /\ UNCHANGED <<env, proc, SECRET_KEY, schema, users, nextId, now, ticks,
                   issued, trainings, devotions, bcrypt, disciple_information,
                   training_category, pending>>

GetPersonalInfo ==
    /\ proc = "serving"
    /\ \E token \in Bearer, user_id \in PathIds :
        /\ req' = [NoReq EXCEPT !.op = "get_personal_info", !.token = token,
                                !.user_id = user_id]
        /\ resp' = get_personal_info(user_id, token)
    /\ UNCHANGED <<env, proc, SECRET_KEY, schema, users, nextId, now, ticks,
                   issued, trainings, devotions, serial, bcrypt,
                   personal_information, disciple_information,
                   training_category, pending>>

UpdatePersonalInfo ==
    /\ proc = "serving"
    /\ \E token \in Bearer, user_id \in PathIds, v \in {Absent} \cup NewFirstNames :
       \E r \in {update_personal_info(user_id, [first_name |-> v], token)} :
        /\ personal_information' = r.rows
        /\ req' = [NoReq EXCEPT !.op = "update_personal_info", !.token = token,
                                !.user_id = user_id]
        /\ resp' = r.resp
    /\ UNCHANGED <<env, proc, SECRET_KEY, schema, users, nextId, now, ticks,
                   issued, trainings, devotions, serial, bcrypt, disciple_information,
                   training_category, pending>>

DeletePersonalInfo ==
    /\ proc = "serving"
    /\ \E token \in Bearer, user_id \in PathIds :
       \E r \in {delete_personal_info(user_id, token)} :
        /\ personal_information' = r.rows
        /\ req' = [NoReq EXCEPT !.op = "delete_personal_info", !.token = token,
                                !.user_id = user_id]
        /\ resp' = r.resp
    /\ UNCHANGED <<env, proc, SECRET_KEY, schema, users, nextId, now, ticks,
                   issued, trainings, devotions, serial, bcrypt, disciple_information,
                   training_category, pending>>

CreateDiscipleInfo ==
    /\ proc = "serving"
    /\ serial.disciple_information <= MaxInfos
    /\ \E token \in Bearer, user_id \in PathIds, v \in GroupNames :
       \E r \in {create_disciple_info(user_id, [group_name |-> v], token)} :
        /\ disciple_information' = r.rows
        /\ serial' = IF r.resp.status = 201
                     THEN [serial EXCEPT !.disciple_information = @ + 1] ELSE serial
        /\ req' = [NoReq EXCEPT !.op = "create_disciple_info", !.token = token,
                                !.user_id = user_id]
        /\ resp' = r.resp
    /\ UNCHANGED <<env, proc, SECRET_KEY, schema, users, nextId, now, ticks,
                   issued, trainings, devotions, bcrypt, personal_information,
                   training_category, pending>>

GetDiscipleInfo ==
    /\ proc = "serving"
    /\ \E token \in Bearer, user_id \in PathIds :
        /\ req' = [NoReq EXCEPT !.op = "get_disciple_info", !.token = token,
                                !.user_id = user_id]
        /\ resp' = get_disciple_info(user_id, token)
    /\ UNCHANGED <<env, proc, SECRET_KEY, schema, users, nextId, now, ticks,
                   issued, trainings, devotions, serial, bcrypt,
                   personal_information, disciple_information,
                   training_category, pending>>

UpdateDiscipleInfo ==
    /\ proc = "serving"
    /\ \E token \in Bearer, user_id \in PathIds, v \in {Absent} \cup NewGroupNames :
       \E r \in {update_disciple_info(user_id, [group_name |-> v], token)} :
        /\ disciple_information' = r.rows
        /\ req' = [NoReq EXCEPT !.op = "update_disciple_info", !.token = token,
                                !.user_id = user_id]
        /\ resp' = r.resp
    /\ UNCHANGED <<env, proc, SECRET_KEY, schema, users, nextId, now, ticks,
                   issued, trainings, devotions, serial, bcrypt, personal_information,
                   training_category, pending>>

DeleteDiscipleInfo ==
    /\ proc = "serving"
    /\ \E token \in Bearer, user_id \in PathIds :
       \E r \in {delete_disciple_info(user_id, token)} :
        /\ disciple_information' = r.rows
        /\ req' = [NoReq EXCEPT !.op = "delete_disciple_info", !.token = token,
                                !.user_id = user_id]
        /\ resp' = r.resp
    /\ UNCHANGED <<env, proc, SECRET_KEY, schema, users, nextId, now, ticks,
                   issued, trainings, devotions, serial, bcrypt, personal_information,
                   training_category, pending>>

\* two users have registered; the second either has filled in nothing or
\* has a personal-information row, a disciple-information row and a
\* devotion.  The clock stands still.
ProfileInit ==
    /\ env \in [SECRET_KEY : Secrets, DATABASE : {TRUE}]
    /\ proc = "serving"
    /\ SECRET_KEY = env.SECRET_KEY
    /\ schema = "current"
    /\ users = {[id |-> 1, name |-> "ann", email |-> "a@x",
                 password |-> hash_password("secret123", "s1")],
                [id |-> 2, name |-> "ann", email |-> "b@x",
                 password |-> hash_password("hunter22", "s1")]}
    /\ nextId = 3
    /\ now = 0
    /\ ticks = MaxTicks
    /\ issued = {}
    /\ trainings = {}
    /\ bcrypt = [rejects_long |-> FALSE, hashed |-> {}, checked |-> {}]
    /\ \/ /\ personal_information = {}
          /\ disciple_information = {}
          /\ devotions = {}
          /\ serial = NoRows
       \/ /\ personal_information = {[id |-> 1, user_id |-> 2, first_name |-> "joe"]}
          /\ disciple_information = {[id |-> 1, user_id |-> 2, group_name |-> "g1"]}
          /\ devotions = {[id |-> 1, user_id |-> 2, title |-> "t1"]}
          /\ serial = [NoRows EXCEPT !.personal_information = 2,
                                     !.disciple_information = 2,
                                     !.devotions = 2]
    /\ training_category = {}
    /\ pending = {}
    /\ req = NoReq
    /\ resp = NoResp

ProfileNext ==
    \/ Login
    \/ DeleteUser
    \/ CreatePersonalInfo
    \/ GetPersonalInfo
    \/ UpdatePersonalInfo
    \/ DeletePersonalInfo
    \/ CreateDiscipleInfo
    \/ GetDiscipleInfo
    \/ UpdateDiscipleInfo
    \/ DeleteDiscipleInfo

ProfileSpec == ProfileInit /\ [][ProfileNext]_vars

\* ---- accounts: registration, change and removal of users, and the
\* sessions opened with their credentials, on a clock that stands still;
\* passwords of at most 72 bytes and longer ones, and salts that differ
AnyPasswords == {"secret123"} \cup LongPasswords
AnySalts == {"s1", "s2"}
AnyUpdates == [name : {Absent} \cup NewNames, email : {Absent} \cup Emails,
               password : {Absent} \cup AnyPasswords]

CreateUserAny == CreateUserWith(AnyPasswords, AnySalts)
LoginAny == LoginWith(AnyPasswords)
UpdateUserAny == UpdateUserWith(AnyUpdates, AnySalts)

AccountInit ==
    /\ env \in [SECRET_KEY : Secrets, DATABASE : {TRUE}]
    /\ proc = "serving"
    /\ SECRET_KEY = env.SECRET_KEY
    /\ schema = "current"
    /\ users = {}
    /\ nextId = 1
    /\ now = 0
    /\ ticks = MaxTicks
    /\ issued = {}
    /\ trainings = {}
    /\ devotions = {}
    /\ serial = NoRows
    /\ bcrypt \in [rejects_long : BOOLEAN, hashed : {{}}, checked : {{}}]
    /\ personal_information = {}
    /\ disciple_information = {}
    /\ training_category = {}
    /\ pending = {}
    /\ req = NoReq
    /\ resp = NoResp

AccountNext ==
    \/ CreateUserAny
    \/ LoginAny
    \/ Refresh
    \/ VerifyToken
    \/ UpdateUserAny
    \/ DeleteUser

AccountSpec == AccountInit /\ [][AccountNext]_vars

\* ---- concurrent requests on the users table.  Each request runs in its
\* own session (get_db) and transaction, at PostgreSQL's READ COMMITTED:
\* the handler's SELECTs see committed rows; db.flush() sends the INSERT or
\* UPDATE, which the unique index on users.email checks; the commit of
\* get_db after the handler returned makes the row visible to the others.
\* pending holds [conn, op, user_id, changes, row, stage] per request.

\* the unique index users.email (models.User.email, unique=True) refuses a
\* row whose email another committed row holds
IntegrityError_unconstrained(email, user_id) == FALSE

IntegrityError(email, user_id) ==
    \E u \in users : u.email = email /\ u.id # user_id

\* the email a request in flight writes, Absent if it writes none
Written(p) ==
    IF p.op = "create_user" THEN p.row.email ELSE p.changes.email

\* an INSERT or UPDATE waits while another open transaction has written,
\* and not yet committed, a row with that email or the row that holds it
Blocked(p) ==
    \E q \in pending :
        /\ q.conn # p.conn
        /\ q.stage = "flushed"
        /\ \/ q.user_id = p.user_id
           \/ /\ Written(p) # Absent
              /\ \/ Written(q) = Written(p)
                 \/ /\ Written(q) # Absent
                    /\ \E u \in users : u.id = q.user_id /\ u.email = Written(p)

\* the connection the pool hands out: the first that is not in use
Free ==
    {c \in 1..MaxPending :
        /\ \A p \in pending : p.conn # c
        /\ \A d \in 1..(c - 1) : \E p \in pending : p.conn = d}

RacePasswords == {"secret123"}
RaceUpdates == [name : {Absent}, email : {Absent} \cup Emails,
                password : {Absent}]

\* a running application that nobody registered with yet, or one where the
\* first user registered and logged in
RaceInit ==
    /\ env \in [SECRET_KEY : Secrets, DATABASE : {TRUE}]
    /\ proc = "serving"
    /\ SECRET_KEY = env.SECRET_KEY
    /\ schema = "current"
    /\ now = 0
    /\ ticks = MaxTicks
    /\ bcrypt = [rejects_long |-> FALSE, hashed |-> {}, checked |-> {}]
    /\ \/ /\ users = {}
          /\ nextId = 1
          /\ issued = {}
       \/ /\ users = {[id |-> 1, name |-> "ann", email |-> "a@x",
                       password |-> hash_password("secret123", "s1")]}
          /\ nextId = 2
          /\ issued = login([email |-> "a@x", password |-> "secret123"],
                            0, 0, 0, 0).minted
    /\ trainings = {}
    /\ devotions = {}
    /\ serial = NoRows
    /\ personal_information = {}
    /\ disciple_information = {}
    /\ training_category = {}
    /\ pending = {}
    /\ req = NoReq
    /\ resp = NoResp

\* create_user up to db.flush(): the SELECT and hash_password
CreateUserBegin ==
    /\ proc = "serving"
    /\ nextId + Cardinality({p \in pending : p.op = "create_user"
                                           /\ p.stage = "checked"}) <= MaxUsers
    /\ \E conn \in Free, name \in Names, email \in Emails,
          password \in RacePasswords, salt \in Salts :
       \E r \in {create_user([name |-> name, email |-> email,
                              password |-> password], salt)} :
        IF r.resp.status # 201
        THEN /\ req' = [NoReq EXCEPT !.op = "create_user", !.email = email]
             /\ resp' = r.resp
             /\ UNCHANGED pending
        ELSE /\ pending' = pending \cup
                    {[conn |-> conn, op |-> "create_user", user_id |-> None,
                      changes |-> [name |-> name, email |-> email,
                                   password |-> Absent],
                      row |-> CHOOSE v \in r.rows \ users : TRUE,
                      stage |-> "checked"]}
             /\ UNCHANGED <<req, resp>>
    /\ UNCHANGED <<env, proc, SECRET_KEY, schema, users, nextId, now, ticks,
                   issued, trainings, devotions, serial, bcrypt,
                   personal_information, disciple_information,
                   training_category>>

\* db.flush() of create_user: the INSERT draws the id from the sequence,
\* and the unique index lets it in or raises IntegrityError, with which
\* the request leaves through get_db (rollback) as a 500
CreateUserFlush ==
    /\ \E p \in pending :
        /\ p.op = "create_user" /\ p.stage = "checked"
        /\ ~ Blocked(p)
        /\ nextId' = nextId + 1
        /\ IF IntegrityError(p.row.email, nextId)
           THEN /\ pending' = pending \ {p}
                /\ req' = [NoReq EXCEPT !.op = "create_user",
                                        !.email = p.row.email]
                /\ resp' = ServerError("create_user")
           ELSE /\ pending' = (pending \ {p}) \cup
                    {[p EXCEPT !.stage = "flushed", !.user_id = nextId,
                               !.row = [@ EXCEPT !.id = nextId]]}
                /\ UNCHANGED <<req, resp>>
    /\ UNCHANGED <<env, proc, SECRET_KEY, schema, users, now, ticks,
                   issued, trainings, devotions, serial, bcrypt,
                   personal_information, disciple_information,
                   training_category>>

\* the commit of get_db after create_user returned
CreateUserCommit ==
    /\ \E p \in pending :
        /\ p.op = "create_user" /\ p.stage = "flushed"
        /\ users' = users \cup {p.row}
        /\ pending' = pending \ {p}
        /\ req' = [NoReq EXCEPT !.op = "create_user", !.email = p.row.email]
        /\ resp' = [op |-> "create_user", status |-> 201, detail |-> "",
                    www_authenticate |-> "", cookie |-> NoCookie,
                    body |-> [NoBody EXCEPT !.id = p.row.id,
                                            !.name = p.row.name,
                                            !.email = p.row.email]]
    /\ UNCHANGED <<env, proc, SECRET_KEY, schema, nextId, now, ticks,
                   issued, trainings, devotions, serial, bcrypt,
                   personal_information, disciple_information,
                   training_category>>

\* update_user up to db.flush(): the ownership check, the two SELECTs and
\* hash_password
UpdateUserBegin ==
    /\ proc = "serving"
    /\ \E conn \in Free, token \in Bearer, user_id \in PathIds,
          user_update \in RaceUpdates, salt \in Salts :
       \E r \in {update_user(user_id, user_update, token, salt)} :
        IF r.resp.status # 200
        THEN /\ req' = [NoReq EXCEPT !.op = "update_user", !.token = token,
                                     !.user_id = user_id,
                                     !.email = IF user_update.email = Absent
                                               THEN "" ELSE user_update.email]
             /\ resp' = r.resp
             /\ UNCHANGED pending
        ELSE /\ pending' = pending \cup
                    {[conn |-> conn, op |-> "update_user", user_id |-> user_id,
                      changes |-> [name |-> user_update.name,
                                   email |-> user_update.email,
                                   password |-> user_update.password],
                      row |-> CHOOSE v \in r.rows : v.id = user_id,
                      stage |-> "checked"]}
             /\ UNCHANGED <<req, resp>>
    /\ UNCHANGED <<env, proc, SECRET_KEY, schema, users, nextId, now, ticks,
                   issued, trainings, devotions, serial, bcrypt,
                   personal_information, disciple_information,
                   training_category>>

\* db.flush() of update_user: the UPDATE of the columns that were assigned
UpdateUserFlush ==
    /\ \E p \in pending :
        /\ p.op = "update_user" /\ p.stage = "checked"
        /\ ~ Blocked(p)
        /\ IF p.changes.email # Absent /\ IntegrityError(p.changes.email, p.user_id)
           THEN /\ pending' = pending \ {p}
                /\ req' = [NoReq EXCEPT !.op = "update_user",
                                        !.user_id = p.user_id,
                                        !.email = p.changes.email]
                /\ resp' = ServerError("update_user")
           ELSE /\ pending' = (pending \ {p}) \cup {[p EXCEPT !.stage = "flushed"]}
                /\ UNCHANGED <<req, resp>>
    /\ UNCHANGED <<env, proc, SECRET_KEY, schema, users, nextId, now, ticks,
                   issued, trainings, devotions, serial, bcrypt,
                   personal_information, disciple_information,
                   training_category>>

\* the commit of get_db after update_user returned: the assigned columns
\* replace those of the row as it is then
UpdateUserCommit ==
    /\ \E p \in pending :
        /\ p.op = "update_user" /\ p.stage = "flushed"
        /\ \E u \in users :
            /\ u.id = p.user_id
            /\ LET v == [u EXCEPT
                          !.name = IF p.changes.name = Absent THEN @
                                   ELSE p.row.name,
                          !.email = IF p.changes.email = Absent THEN @
                                    ELSE p.row.email,
                          !.password = IF p.changes.password = Absent THEN @
                                       ELSE p.row.password] IN
               /\ users' = (users \ {u}) \cup {v}
               /\ resp' = [op |-> "update_user", status |-> 200, detail |-> "",
                           www_authenticate |-> "", cookie |-> NoCookie,
                           body |-> [NoBody EXCEPT !.id = v.id,
                                                   !.name = v.name,
                                                   !.email = v.email]]
        /\ pending' = pending \ {p}
        /\ req' = [NoReq EXCEPT !.op = "update_user", !.user_id = p.user_id,
                                !.email = IF p.changes.email = Absent
                                          THEN "" ELSE p.changes.email]
    /\ UNCHANGED <<env, proc, SECRET_KEY, schema, nextId, now, ticks,
                   issued, trainings, devotions, serial, bcrypt,
                   personal_information, disciple_information,
                   training_category>>

RaceNext ==
    \/ CreateUserBegin
    \/ CreateUserFlush
    \/ CreateUserCommit
    \/ UpdateUserBegin
    \/ UpdateUserFlush
    \/ UpdateUserCommit

RaceSpec == RaceInit /\ [][RaceNext]_vars

\* ---- one session: a registered user logs in once, and the clock runs
\* up to and past the ends of the lifetimes of the tokens
Spans == {days(REFRESH_TOKEN_EXPIRATION_DAYS) - 1,
          days(REFRESH_TOKEN_EXPIRATION_DAYS),
          minutes(ACCESS_TOKEN_EXPIRATION_MINUTES) - 1,
          minutes(ACCESS_TOKEN_EXPIRATION_MINUTES)}

Elapse ==
    /\ proc = "serving"
    /\ ticks < MaxTicks
    /\ \E d \in Spans : now' = now + d
    /\ ticks' = ticks + 1
    /\ UNCHANGED <<env, proc, SECRET_KEY, schema, users, nextId,
                   issued, req, resp, trainings, devotions, serial,
                   bcrypt, personal_information, disciple_information,
                   training_category, pending>>

\* the login of a user who holds no refresh token yet
FirstLogin ==
    /\ \A k \in issued : k.tok.type # "refresh"
    /\ Login

LifetimeInit ==
    /\ env \in [SECRET_KEY : Secrets, DATABASE : {TRUE}]
    /\ proc = "serving"
    /\ SECRET_KEY = env.SECRET_KEY
    /\ schema = "current"
    /\ users = {[id |-> 1, name |-> "ann", email |-> "a@x",
                 password |-> hash_password("secret123", "s1")]}
    /\ nextId = 2
    /\ now = 0
    /\ ticks = 0
    /\ issued = {}
    /\ trainings = {}
    /\ devotions = {}
    /\ serial = NoRows
    /\ bcrypt = [rejects_long |-> FALSE, hashed |-> {}, checked |-> {}]
    /\ personal_information = {}
    /\ disciple_information = {}
    /\ training_category = {}
    /\ pending = {}
    /\ req = NoReq
    /\ resp = NoResp

LifetimeNext ==
    \/ Elapse
    \/ FirstLogin
    \/ Refresh
    \/ VerifyToken

LifetimeSpec == LifetimeInit /\ [][LifetimeNext]_vars

\* ------------------------------------------------- the resource endpoints
\* as Init, with a clock that stands still
StoreInit ==
    /\ env \in [SECRET_KEY : Secrets \cup {NoSecret}, DATABASE : BOOLEAN]
    /\ proc = "init"
    /\ SECRET_KEY = NoSecret
    /\ \/ schema = "legacy" /\ users \in LegacyTables
       \/ schema = "current" /\ users = {}
    /\ nextId = Cardinality(users) + 1
    /\ now = 0
    /\ ticks = MaxTicks
    /\ issued = {}
    /\ trainings = {}
    /\ devotions = {}
    /\ serial = NoRows
    /\ bcrypt = [rejects_long |-> FALSE, hashed |-> {}, checked |-> {}]
    /\ personal_information = {}
    /\ disciple_information = {}
    /\ training_category = {}
    /\ pending = {}
    /\ req = NoReq
    /\ resp = NoResp

StoreNext ==
    \/ AlembicUpgrade
    \/ Startup
    \/ CreateUser
    \/ Login
    \/ GetUsers
    \/ GetUser
    \/ UpdateUser
    \/ DeleteUser
    \/ CreateTraining
    \/ GetUserTrainings
    \/ DeleteTraining
    \/ CreateDevotion
    \/ GetUserDevotions
    \/ DeleteDevotion

StoreSpec == StoreInit /\ [][StoreNext]_vars

\* ================================================================ claims
H24 == 24 * 60 * 60          \* 24 hours, in seconds
D15 == 15 * 24 * 60 * 60     \* 15 days, in seconds

AccessTokens  == {k \in issued : k.tok.type = "access"}
RefreshTokens == {k \in issued : k.tok.type = "refresh"}

\* C1: an access token made by create_access_token(U) at clock reading T
\* is accepted by verify_access_token, which returns exactly U, at every
\* reading before T + 24h, and is rejected (None, 401 from verify-token) at
\* every reading after T + 24h.
C1_AccessTokenLifetime ==
    \A k \in AccessTokens :
        /\ now < k.at + H24 =>
            /\ verify_access_token(k.tok) = Returned(k.uid)
            /\ verify_token(k.tok).resp.status = 200
        /\ now > k.at + H24 =>
            /\ verify_access_token(k.tok) = Returned(None)
            /\ verify_token(k.tok).resp.status = 401

\* an access token was presented to verify-token after its 24 hours and
\* was answered 401
C1_Witness ==
    /\ resp.op = "verify"
    /\ resp.status = 401
    /\ \E k \in AccessTokens : k.tok = req.token /\ now > k.at + H24

\* C2: a refresh token never authorizes resource access: verify_access_token,
\* GET verify-token and a route guarded by get_current_user reject every
\* token made by create_refresh_token, expired or not (401).
C2_RefreshTokenNoAccess ==
    \A k \in RefreshTokens :
        /\ verify_access_token(k.tok) = Returned(None)
        /\ verify_token(k.tok).resp.status = 401
        /\ get_current_user(k.tok).raised = "401"
        /\ \A user_id \in PathIds : get_user(user_id, k.tok).resp.status = 401

\* a guarded route was called with a refresh token that is unexpired and
\* correctly signed, for the token's own user, and answered 401
C2_Witness ==
    /\ resp.op = "get_user"
    /\ resp.status = 401
    /\ \E k \in RefreshTokens :
        /\ k.tok = req.token
        /\ req.user_id = k.uid
        /\ verify_refresh_token(k.tok) = Returned(k.uid)

\* C3: an access token never mints access tokens: POST refresh with a valid
\* unexpired access token answers 401 and issues no token.
C3_AccessTokenNoRefresh ==
    \A k \in AccessTokens :
        verify_access_token(k.tok) = Returned(k.uid) =>
            \A b \in 0..1 :
                LET r == refresh_access_token([refresh_token |-> k.tok],
                                              now, now + b) IN
                /\ r.resp.status = 401
                /\ r.resp.body.access_token = NoToken
                /\ r.minted = {}

\* refresh was called with a currently valid access token and answered 401
C3_Witness ==
    /\ resp.op = "refresh"
    /\ resp.status = 401
    /\ \E k \in AccessTokens :
        k.tok = req.token /\ verify_access_token(k.tok) = Returned(k.uid)

Registered(email) == \E u \in users : u.email = email

\* password is the one the stored value of u was hashed from
IsPasswordOf(password, u) ==
    \E salt \in Salts : u.password = hash_password(password, salt)

\* the responses login can give to the credentials, over the clock
\* readings it may make
LoginResponses(email, password) ==
    {login([email |-> email, password |-> password],
           now, now + Bump(roll, 1), now + Bump(roll, 2),
           now + Bump(roll, 3)) : roll \in 0..3}

\* C4: login with an unregistered email and login with a registered email
\* and a wrong password get the same response: status 401, the same detail
\* and headers, and no cookie.
C4_LoginFailuresSame ==
    proc = "serving" =>
        \A e1, e2 \in Emails, p1, p2 \in Passwords :
            (/\ ~Registered(e1)
             /\ \E u \in users : u.email = e2 /\ ~IsPasswordOf(p2, u))
            => \A a \in LoginResponses(e1, p1), b \in LoginResponses(e2, p2) :
                /\ a.resp.status = 401
                /\ b.resp.status = 401
                /\ a.resp = b.resp
                /\ a.resp.cookie = NoCookie

\* C5: login with the email and the current password of an existing user
\* answers 200 with the user's id, name and email, an access token that
\* verify_access_token resolves to the user's id, and a refresh_token
\* cookie whose value verify_refresh_token resolves to the same id.
C5_LoginSucceeds ==
    proc = "serving" =>
        \A u \in users, p \in Passwords :
            IsPasswordOf(p, u) =>
                \A r \in LoginResponses(u.email, p) :
                    /\ r.resp.status = 200
                    /\ r.resp.body.id = u.id
                    /\ r.resp.body.name = u.name
                    /\ r.resp.body.email = u.email
                    /\ verify_access_token(r.resp.body.access_token) = Returned(u.id)
                    /\ r.resp.cookie.act = "set"
                    /\ r.resp.cookie.key = "refresh_token"
                    /\ verify_refresh_token(r.resp.cookie.value) = Returned(u.id)

\* C6: with a refresh token of user U, every POST refresh before the
\* token's expiry (15 days after it was made) answers 200 with an access
\* token for U, however many refreshes came before; after the expiry
\* refresh answers 401.
C6_RefreshUntilExpiry ==
    \A k \in RefreshTokens : \A b \in 0..1 :
        LET r == refresh_access_token([refresh_token |-> k.tok], now, now + b) IN
        /\ now < k.at + D15 =>
            /\ r.resp.status = 200
            /\ r.resp.body.access_token.user_id = k.uid
            /\ r.resp.body.access_token.type = "access"
            /\ verify_access_token(r.resp.body.access_token) = Returned(k.uid)
        /\ now > k.at + D15 =>
            /\ r.resp.status = 401
            /\ r.minted = {}

\* a refresh token was used more than 24 hours after it was made, and
\* refresh answered 200 with an access token of the same user
C6_Witness ==
    /\ resp.op = "refresh"
    /\ resp.status = 200
    /\ \E k \in RefreshTokens :
        /\ k.tok = req.token
        /\ now > k.at + H24
        /\ resp.body.access_token.user_id = k.uid

\* C7: logout revokes nothing: its response only clears the cookie, and
\* the tokens handed out before it keep passing refresh and verification
\* until their own expiry.
C7_LogoutRevokesNothing ==
    resp.op = "logout" =>
        /\ resp.status = 200
        /\ resp.cookie.act = "delete"
        /\ resp.cookie.key = "refresh_token"
        /\ resp.body.access_token = NoToken
        /\ \A k \in RefreshTokens :
            now < k.at + D15 =>
                /\ verify_refresh_token(k.tok) = Returned(k.uid)
                /\ refresh_access_token([refresh_token |-> k.tok],
                                        now, now).resp.status = 200
        /\ \A k \in AccessTokens :
            now < k.at + H24 => verify_access_token(k.tok) = Returned(k.uid)

\* the last request was a logout, time has passed since, and the client
\* holds a refresh token and an access token that still verify
C7_Witness ==
    /\ resp.op = "logout"
    /\ \E k \in RefreshTokens :
        now > k.at /\ verify_refresh_token(k.tok) = Returned(k.uid)
    /\ \E k \in AccessTokens :
        now > k.at /\ verify_access_token(k.tok) = Returned(k.uid)

\* C8: verification is total: for every token and configuration the two
\* verify functions return a user id or None and never raise, so
\* verify-token, refresh and get_current_user answer 200 or 401 only.
C8_VerificationTotal ==
    proc = "serving" =>
        \A token \in Presentable :
            /\ verify_access_token(token).raised = ""
            /\ verify_refresh_token(token).raised = ""
            /\ verify_token(token).resp.status \in {200, 401}
            /\ refresh_access_token([refresh_token |-> token],
                                    now, now).resp.status \in {200, 401}
            /\ get_current_user(token).raised \in {"", "401"}

\* C9: without a configured SECRET_KEY the process never serves a login,
\* refresh or verify request.
C9_MissingSecretFatal ==
    env.SECRET_KEY = NoSecret =>
        /\ proc # "serving"
        /\ resp.op \notin {"login", "refresh", "verify"}

\* C10: verify_password returns false, without raising, for every stored
\* value that is not a well-formed hash, and login for such a user
\* answers 401.
C10_MalformedHashIsFalse ==
    proc = "serving" =>
        \A u \in users, p \in Passwords :
            u.password.fmt # "bcrypt" =>
                /\ verify_password(p, u.password) = "False"
                /\ \A r \in LoginResponses(u.email, p) : r.resp.status = 401

\* C11: once the users table has its password column, the password of
\* every row is an output of hash_password, whatever migration,
\* create_user, update_user and delete_user did before.
C11_PasswordsAreHashes ==
    schema = "current" => \A u \in users : u.password.fmt = "bcrypt"

\* the tokens handed out, with the signature segment modified or replaced
\* by a signature under somebody else's key
Resigned ==
    {[k.tok EXCEPT !.sig = sig] : k \in issued, sig \in {BadSig} \cup ForeignKeys}

\* C12: a token whose signature is not the one the current secret gives,
\* because the signature segment was modified or because it was signed
\* under another secret, is accepted by neither verify_access_token nor
\* verify_refresh_token nor the endpoints built on them; a request that was
\* accepted carried a token signed under the current secret.
C12_SignatureRequired ==
    /\ \A token \in Presentable \cup Resigned :
        token.sig # SECRET_KEY =>
            /\ verify_access_token(token).value = None
            /\ verify_refresh_token(token).value = None
            /\ verify_token(token).resp.status # 200
            /\ refresh_access_token([refresh_token |-> token], now, now).resp.status # 200
            /\ \A user_id \in PathIds : get_user(user_id, token).resp.status # 200
    /\ resp.op \in {"refresh", "verify", "get_user"} /\ resp.status = 200 =>
            /\ req.token.sig = SECRET_KEY
            /\ SECRET_KEY \in Secrets

\* a refresh token that is good as issued was refused with its signature
\* segment modified
C12_Witness ==
    /\ resp.op = "refresh" /\ resp.status = 401
    /\ req.token.sig = BadSig
    /\ verify_refresh_token([req.token EXCEPT !.sig = SECRET_KEY]).value # None

\* the answers POST /api/auth/refresh can give now to refresh token r,
\* one for each way the clock can move while it is served
RefreshOutcomes(r) ==
    {refresh_access_token([refresh_token |-> r], now, now + b) : b \in 0..1}

\* C13 as stated: whenever refresh is called with the refresh token of a
\* login, the access token it returns differs from the one login returned.
C13_RefreshAlwaysNewToken ==
    \A a \in AccessTokens, r \in RefreshTokens :
        a.uid = r.uid =>
            \A out \in RefreshOutcomes(r.tok) :
                out.resp.status = 200 => out.resp.body.access_token # a.tok

\* C13, amended: the access token refresh returns carries the user id of
\* the login's access token and verifies to it; it equals the login's
\* access token exactly when the two create_access_token calls read the
\* same clock seconds, and so it differs whenever refresh is served at a
\* later clock second than the one login's token was issued at.
C13_RefreshNewTokenWhenLater ==
    \A a \in AccessTokens, r \in RefreshTokens :
        a.uid = r.uid =>
            \A b \in 0..1 :
                LET out == refresh_access_token([refresh_token |-> r.tok],
                                                now, now + b)
                    T2  == out.resp.body.access_token IN
                out.resp.status = 200 =>
                    /\ T2.user_id = a.tok.user_id
                    /\ verify_access_token(T2).value = a.uid
                    /\ verify_access_token(a.tok).value \in {None, a.uid}
                    /\ T2 = a.tok <=>
                          /\ a.tok.exp = now + minutes(ACCESS_TOKEN_EXPIRATION_MINUTES)
                          /\ a.tok.iat = now + b
                    /\ now > a.tok.iat => T2 # a.tok

\* refresh was served in the clock second of the login and returned the
\* login's access token again
C13_Witness ==
    /\ resp.op = "refresh" /\ resp.status = 200
    /\ \E a \in AccessTokens, r \in RefreshTokens :
        /\ a.uid = r.uid /\ a.at = r.at /\ now = r.at
        /\ req.token = r.tok
        /\ resp.body.access_token = a.tok

\* the answers to a refresh request that carries r in the cookie only
RefreshOutcomes_cookie(r) ==
    {refresh_access_token([refresh_token |-> NoToken, cookie |-> r], now, now + b)
        : b \in 0..1}

\* C14: POST /api/auth/refresh with a valid refresh token in the
\* refresh_token cookie and no refresh_token in the body answers 200.
C14_RefreshFromCookie ==
    \A k \in RefreshTokens :
        verify_refresh_token(k.tok).value # None =>
            \A out \in RefreshOutcomes_cookie(k.tok) : out.resp.status = 200

\* C15: the exp claim of every issued token is its iat claim plus the
\* token's lifetime: 24 hours for an access token, 15 days for a refresh
\* token.
C15_ExpIsIatPlusLifetime ==
    \A k \in issued :
        /\ k.tok.type \in {"access", "refresh"}
        /\ k.tok.type = "access"  => k.tok.exp = k.tok.iat + H24
        /\ k.tok.type = "refresh" => k.tok.exp = k.tok.iat + D15

\* the refresh tokens among toks that verify under key at clock reading t
ValidRefreshTokens(toks, key, t) ==
    {k.tok : k \in {i \in toks : /\ i.tok.type = "refresh"
                                 /\ jwt_decode(i.tok, key, t) = "ok"}}

\* C16: every step that is a refresh request, successful or not, hands out
\* nothing but an access token: its response sets no cookie and carries no
\* refresh token,
\* the only token a client gains is the access token of the body, and the
\* refresh tokens that are valid when the call ends are the ones that would
\* be valid then without the call.
C16_RefreshIssuesAccessOnly ==
    [][\/ /\ resp'.cookie = NoCookie
          /\ resp'.status = 200 => resp'.body.access_token.type = "access"
          /\ resp'.status # 200 => resp'.body.access_token = NoToken
          /\ issued' \ issued \subseteq
               {k \in issued' : /\ k.tok = resp'.body.access_token
                                /\ k.tok.type = "access"}
          /\ RefreshTokens' = RefreshTokens
          /\ SECRET_KEY' = SECRET_KEY
          /\ ValidRefreshTokens(issued', SECRET_KEY', now')
               = ValidRefreshTokens(issued, SECRET_KEY, now')
       \/ ~Refresh]_vars

\* a refresh succeeded, set no cookie, and the refresh token it was given
\* is still valid
C16_Witness ==
    /\ resp.op = "refresh" /\ resp.status = 200
    /\ resp.cookie = NoCookie
    /\ resp.body.access_token.type = "access"
    /\ req.token \in ValidRefreshTokens(issued, SECRET_KEY, now)

\* why a token is no good as an access token, or as a refresh token: it is
\* malformed, its signature is not the current secret's, it has expired,
\* or it is of the other type
FailsAs(type, token) ==
    \/ token.kind # "jwt"
    \/ token.sig # SECRET_KEY
    \/ token.exp <= now
    \/ token.type # type

\* C17: on each endpoint, any two tokens that fail verification, for
\* whatever reasons, get the same response, a 401 with the same body and
\* headers.
C17_RejectionsIndistinguishable ==
    proc = "serving" =>
    \A x, y \in Presentable \cup Resigned :
        /\ FailsAs("access", x) /\ FailsAs("access", y) =>
            /\ verify_token(x).resp.status = 401
            /\ verify_token(x).resp = verify_token(y).resp
            /\ \A user_id \in PathIds :
                /\ get_user(user_id, x).resp.status = 401
                /\ get_user(user_id, x).resp = get_user(user_id, y).resp
        /\ FailsAs("refresh", x) /\ FailsAs("refresh", y) =>
            /\ refresh_access_token([refresh_token |-> x], now, now).resp.status = 401
            /\ refresh_access_token([refresh_token |-> x], now, now).resp
                 = refresh_access_token([refresh_token |-> y], now, now).resp

\* the operations on users, trainings and devotions
ResourceOps ==
    {"get_users", "get_user", "update_user", "delete_user",
     "create_training", "get_user_trainings", "delete_training",
     "create_devotion", "get_user_devotions", "delete_devotion"}

\* the users whose records the last request read or changed
Touched ==
    IF resp.op = "get_users" THEN {u.id : u \in resp.body.items}
    ELSE {req.user_id}

\* C18: a resource operation on a record of user U that succeeded was sent
\* with a valid access token whose user id is U.
C18_OwnRecordsOnly ==
    resp.op \in ResourceOps /\ resp.status \in {200, 201, 204} =>
        \A U \in Touched : verify_access_token(req.token).value = U

\* C19: the cookie a successful login sets is named refresh_token, is
\* HttpOnly and SameSite=Lax, carries the refresh token, and its max-age
\* is the refresh-token lifetime in seconds, 15 days = 1,296,000 s: the
\* token's exp is the clock reading it was created at plus that max-age.
C19_CookieLifetime ==
    \A email \in Emails, password \in Passwords :
        \A out \in LoginResponses(email, password) :
            out.resp.status = 200 =>
                LET cookie == out.resp.cookie IN
                /\ cookie.act = "set"
                /\ cookie.key = "refresh_token"
                /\ cookie.httponly
                /\ cookie.samesite = "lax"
                /\ cookie.max_age = 1296000
                /\ cookie.max_age = days(REFRESH_TOKEN_EXPIRATION_DAYS)
                /\ cookie.value.type = "refresh"
                /\ \E m \in out.minted :
                    /\ m.tok = cookie.value
                    /\ m.tok.exp = m.at + cookie.max_age

\* a login succeeded and set the cookie with the refresh token it issued
C19_Witness ==
    /\ resp.op = "login" /\ resp.status = 200
    /\ resp.cookie.key = "refresh_token"
    /\ resp.cookie.max_age = D15
    /\ \E k \in RefreshTokens :
        k.tok = resp.cookie.value /\ k.tok.exp = k.at + resp.cookie.max_age

\* C20: every step that is a login, refresh, logout or verify-token leaves
\* the user store as it was: no row of users, trainings or devotions is added, changed or
\* removed, and the schema and the id sequences stay.
C20_SessionLeavesStore ==
    [][\/ UNCHANGED <<users, nextId, schema, trainings, devotions, serial>>
       \/ ~(Login \/ Refresh \/ Logout \/ VerifyToken)]_vars

\* a session of login and refresh was served for a user whose row is in
\* the store with the password hash create_user gave it
C20_Witness ==
    /\ resp.op = "refresh" /\ resp.status = 200
    /\ \E u \in users :
        /\ u.id = req.token.user_id
        /\ \E p \in Passwords, salt \in Salts : u.password = hash_password(p, salt)
    /\ nextId = Cardinality(users) + 1

\* C21: a token that verify_access_token or verify_refresh_token accepts
\* yields a positive integer, the id of the users row the login that
\* started its session was made for; nothing else that a client can present
\* is accepted.
C21_VerifiedIdIsUserId ==
    /\ \A u \in users : u.id \in Nat \ {0}
    /\ \A k \in issued :
        /\ k.uid \in Nat \ {0}
        /\ k.uid < nextId
        /\ k.tok.user_id = k.uid
        /\ verify_access_token(k.tok).value \in {None, k.uid}
        /\ verify_refresh_token(k.tok).value \in {None, k.uid}
    /\ \A token \in Presentable :
        \A v \in {verify_access_token(token).value,
                  verify_refresh_token(token).value} :
            v # None => /\ v \in Nat \ {0}
                        /\ \E k \in issued : k.tok = token /\ k.uid = v
    /\ resp.op = "login" /\ resp.status = 200 =>
        /\ resp.body.access_token.user_id = resp.body.id
        /\ resp.cookie.value.user_id = resp.body.id
        /\ resp.body.id \in Nat \ {0}
    /\ resp.op = "refresh" /\ resp.status = 200 =>
        resp.body.access_token.user_id = req.token.user_id

\* the access token a refresh minted for the second user verifies to 2
C21_Witness ==
    /\ resp.op = "refresh" /\ resp.status = 200
    /\ \E k \in issued :
        /\ k.tok = resp.body.access_token
        /\ k.uid = 2
        /\ verify_access_token(k.tok).value = 2
        /\ \E u \in users : u.id = 2

\* C22: hash_password(P) returns a hash that verify_password accepts for P
\* and rejects for every other password, and two calls for the same P
\* return different hashes.
C22_HashRoundTrip ==
    /\ \A h \in bcrypt.hashed :
        /\ h.out.raised = ""
        /\ verify_password(h.password, h.out.value) = "True"
        /\ \A Q \in (Passwords \cup LongPasswords) \ {h.password} :
            verify_password(Q, h.out.value) = "False"
        /\ \A g \in bcrypt.hashed :
            g # h /\ g.password = h.password => g.out.value # h.out.value
    /\ \A c \in bcrypt.checked :
        c.out = IF c.password = c.of THEN "True" ELSE "False"

\* C23: create_category, update_category and delete_category called with a
\* valid access token of a user who is not an administrator are rejected
\* and leave the training_category table as it is.
C23_CategoriesAdminOnly ==
    \A token \in Bearer :
        LET caller == verify_access_token(token).value IN
        caller # None /\ caller \notin Admins =>
            /\ \A name \in CategoryNames, type \in CategoryTypes :
                LET r == create_category([name |-> name, type |-> type], token) IN
                r.resp.status \notin {200, 204} /\ r.rows = training_category
            /\ \A category_id \in 1..MaxRows :
                /\ \A category_update \in CategoryUpdates :
                    LET r == update_category(category_id, category_update, token) IN
                    r.resp.status \notin {200, 204} /\ r.rows = training_category
                /\ LET r == delete_category(category_id, token) IN
                   r.resp.status \notin {200, 204} /\ r.rows = training_category

\* the routes on /{user_id} of the user, personal-information,
\* disciple-information and devotion endpoints
OwnedOps ==
    {"get_user", "update_user", "delete_user",
     "create_personal_info", "get_personal_info", "update_personal_info",
     "delete_personal_info",
     "create_disciple_info", "get_disciple_info", "update_disciple_info",
     "delete_disciple_info",
     "create_devotion", "get_user_devotions", "delete_devotion"}

Credentials ==
    {c \in [user : users, password : AnyPasswords] :
        verify_password(c.password, c.user.password) = "True"}

\* the credentials a step made old: the row was deleted, or its password
\* was set to another password than the one that logged in
OldCredentials ==
    {c \in Credentials :
        \/ \A v \in users' : v.id # c.user.id
        \/ \E v \in users' :
            /\ v.id = c.user.id
            /\ v.password # c.user.password
            /\ \E password \in AnyPasswords \ {c.password} :
                hash_password(password, v.password.salt) = v.password}

\* C25: tokens do not depend on the users table: after delete_user(U), or
\* after U's password was changed, the unexpired access tokens issued for U
\* before still verify to U and the refresh tokens still buy access tokens
\* for U, while a login with the old credentials is answered 401.
C25_TokensOutliveCredentials ==
    [][\/ \A c \in OldCredentials :
          /\ \A k \in issued : k.uid = c.user.id =>
              /\ verify_access_token(k.tok) = Returned(k.uid)
                    => verify_access_token(k.tok)' = Returned(k.uid)
              /\ verify_refresh_token(k.tok) = Returned(k.uid) =>
                    LET r == refresh_access_token(
                                [refresh_token |-> k.tok, cookie |-> NoToken],
                                now, now)' IN
                    /\ r.resp.status = 200
                    /\ r.resp.body.access_token.type = "access"
                    /\ r.resp.body.access_token.user_id = k.uid
          /\ login([email |-> c.user.email, password |-> c.password],
                   now, now, now, now)'.resp.status = 401
       \/ ~ /\ resp'.op \in {"delete_user", "update_user"}
            /\ resp'.status \in {200, 204}]_vars

\* the clock reading of the login from which the refresh token's expiry
\* was counted
LoginTimes == {k.at : k \in RefreshTokens}

\* the access tokens a client can hold: those kept, and the one in the
\* last answer of refresh
Obtained ==
    {k.tok : k \in AccessTokens}
    \cup (IF resp.op = "refresh" /\ resp.status = 200
          THEN {resp.body.access_token} ELSE {})

\* C26: a session ends with the refresh token of its login: after the one
\* login at time T, no refresh succeeds at or after T + 15 days, and no
\* access token is accepted later than T + 15 days + 24 hours.
C26_SessionBounded ==
    \A T \in LoginTimes :
        /\ \A request \in RefreshRequests :
            refresh_access_token(request, now, now).resp.status = 200
                => now < T + D15
        /\ \A token \in Obtained :
            verify_access_token(token).value # None => now <= T + D15 + H24

\* a refresh on the last second of the refresh token bought an access
\* token that is still accepted after the refresh token has ended
C26_Witness ==
    /\ resp.op = "refresh" /\ resp.status = 200
    /\ verify_access_token(resp.body.access_token).value = 1
    /\ \E T \in LoginTimes : now > T + D15

\* login in the state a step leads to, with every clock reading the same
LoginAfter(email, password) ==
    login([email |-> email, password |-> password], now, now, now, now)'.resp

\* the passwords that hash_password turns into the stored value hashed
Setting(hashed) ==
    {password \in AnyPasswords :
        ~ too_long(password) /\ hash_password(password, hashed.salt) = hashed}

\* C27: credentials follow the latest update: after create_user(E, P)
\* login(E, P) succeeds; after update_user set the password to P2 # P,
\* login(E, P) is answered 401 and login(E, P2) 200; after update_user set
\* the email to E2 # E, login with E is answered 401 and login with E2
\* succeeds with the same user id.
C27_CredentialsFollowUpdate ==
    [][\/ /\ resp'.op = "create_user" =>
              \A v \in users' \ users : \A P \in Setting(v.password) :
                  LoginAfter(v.email, P).status = 200
          /\ resp'.op = "update_user" =>
              \A u \in users \ users' : \A v \in users' \ users :
                  v.id = u.id =>
                  /\ v.password # u.password =>
                      \A P2 \in Setting(v.password) :
                          /\ LoginAfter(v.email, P2).status = 200
                          /\ \A P \in AnyPasswords \ {P2} :
                              verify_password(P, u.password) = "True" =>
                                  LoginAfter(u.email, P).status = 401
                  /\ v.email # u.email =>
                      /\ \A P \in AnyPasswords :
                          LoginAfter(u.email, P).status = 401
                      /\ \A P \in AnyPasswords :
                          verify_password(P, v.password) = "True" =>
                              /\ LoginAfter(v.email, P).status = 200
                              /\ LoginAfter(v.email, P).body.id = u.id
       \/ ~ /\ resp'.op \in {"create_user", "update_user"}
            /\ resp'.status \in {200, 201}]_vars

\* no two rows of users have the same email
UniqueEmails ==
    \A u \in users, v \in users : u.email = v.email => u = v

\* the email of the request that a step answers is held by another user
Taken ==
    \E u \in users : u.email = req'.email /\ u.id # req'.user_id

\* C28: email uniqueness under concurrency: in every state reached by any
\* interleaving of the steps of concurrent create_user and update_user
\* requests no two rows of users have the same email, and a request that
\* names an email held by another user creates or changes no row.
C28_EmailsUniqueConcurrently ==
    /\ []UniqueEmails
    /\ [][users' = users \/ ~ Taken]_vars

\* a create_user whose SELECT found the email free lost to a request that
\* committed the email first, and was answered 500
C28_Witness ==
    /\ resp.op = "create_user" /\ resp.status = 500
    /\ \E u \in users : u.email = req.email
    /\ \E p \in pending : p.stage = "flushed"

\* C29: update_user of an existing user with a new name and an email that
\* another user holds is answered 400, and the name, email and password of
\* the caller's row stay as they were: get_db rolls the assignment of the
\* name back.
C29_EmailRefusedNothingKept ==
    \A token \in Bearer, user \in users, user_update \in AnyUpdates,
       salt \in AnySalts :
        /\ verify_access_token(token) = Returned(user.id)
        /\ user_update.name # Absent
        /\ user_update.email # Absent
        /\ \E u \in users : u.email = user_update.email /\ u.id # user.id
        => LET r == update_user(user.id, user_update, token, salt) IN
           /\ r.resp.status = 400
           /\ r.rows = users

\* update_user was answered 400 for the email of another user, and the
\* caller's row has the name it was created with
C29_Witness ==
    /\ resp.op = "update_user" /\ resp.status = 400
    /\ \E u \in users : u.email = req.email /\ u.id # req.user_id
    /\ \E u \in users : u.id = req.user_id /\ u.name \in Names

\* C30: whatever create_personal_info, update_personal_info and
\* delete_personal_info calls a user made, create more than once included,
\* the user has at most one personal-information record and
\* get_personal_info answers 200 or 404, never a fault; the user has at
\* most one disciple-information record, and create_disciple_info of a
\* user who has one is answered 400.
C30_OneProfilePerUser ==
    \A U \in PathIds :
        /\ Cardinality({i \in personal_information : i.user_id = U}) <= 1
        /\ Cardinality({i \in disciple_information : i.user_id = U}) <= 1
        /\ \A token \in Bearer :
            verify_access_token(token) = Returned(U) =>
                /\ get_personal_info(U, token).status \in {200, 404}
                /\ (\E i \in disciple_information : i.user_id = U) =>
                    \A v \in GroupNames :
                        create_disciple_info(U, [group_name |-> v], token)
                            .resp.status = 400

====
